---------------------------- MODULE Spec2Model ----------------------------
(***************************************************************************)
(* A model of the EcoWisely back end (src/BackEnd/main.py and              *)
(* src/BackEnd/api_integrations.py): the sliding-window rate limiter, the  *)
(* metrics collector, the metrics snapshot, the three provider clients,    *)
(* the route comparator, the carbon and weather endpoints, and the         *)
(* middleware stack of requests that are handled at the same time.         *)
(*                                                                         *)
(* Units.  The clock is time.time() in whole seconds.  A response time is  *)
(* a duration in thousandths of a millisecond, so that the two-decimal     *)
(* rounding of the snapshot is a real conversion.  A status is the HTTP    *)
(* status code.                                                            *)
(***************************************************************************)
EXTENDS Integers, Sequences, FiniteSets, TLC

VARIABLES
    clock,               \* the latest reading of time.time(), in seconds
    rate_limit_storage,  \* main.py:28, client_ip -> list of timestamps
    metrics_storage,     \* main.py:174-181
    snapshot,            \* the body of the latest GET /metrics answer
    last,                \* what the latest request's caller observed
    admitted_log,        \* history: per client, every admitted timestamp
    samples_log,         \* history: every response time ever appended
    sent,                \* history: per client, the number of requests made
    route_pc,            \* route_optimize: "idle", "loop" or "done"
    route_modes,         \* route_optimize: request.modes
    route_index,         \* route_optimize: the position of the loop in request.modes
    routes,              \* route_optimize: the list routes
    route_response,      \* route_optimize: what the caller receives
    route_calls,         \* history: the results of calculate_route_emissions, in call order
    last_call,           \* history: the latest invocation of a provider client
    api_request,         \* the latest request of the carbon or the weather endpoint
    api_response,        \* what the caller of that request receives
    api_log,             \* history: the carbon and weather requests, in order
    procs,               \* the requests handled at the same time: where each is
    running              \* the request that holds the event loop, or 0

service_vars == << clock, rate_limit_storage, metrics_storage, snapshot, last,
                   admitted_log, samples_log, sent >>

route_vars == << route_pc, route_modes, route_index, routes, route_response,
                 route_calls >>

api_vars == << last_call, api_request, api_response, api_log >>

conc_vars == << procs, running >>

vars == << clock, rate_limit_storage, metrics_storage, snapshot, last,
           admitted_log, samples_log, sent,
           route_pc, route_modes, route_index, routes, route_response, route_calls,
           last_call, api_request, api_response, api_log, procs, running >>

---------------------------------------------------------------------------
(* Program constants *)

\* main.py:122, "if current_time - timestamp < 60"
RateWindowSeconds == 60

\* main.py:126, "if len(rate_limit_storage[client_ip]) >= 60"
RateLimitMax == 60

\* main.py:128, HTTPException(status_code=429, ...)
TooManyRequests == 429

\* main.py:199-200, "if len(...) > 1000: ... [-1000:]"
MaxResponseTimes == 1000

\* main.py:244, "... if len(response_times) > 20 else 0"
P95MinSamples == 20

---------------------------------------------------------------------------
(* Bounds of the model *)

\* requests the busy client makes in the limiter workload
MaxRequests == 62

\* requests every other client makes in the limiter workload
MaxOtherRequests == 1

\* requests made in the mixed workload
MaxMixedRequests == 3

\* requests made in the steady workload (one per second)
MaxSteadyRequests == 1003

\* the longest list request.modes of the route workload
MaxModes == 3

\* the longest of the short leg distances of the leg workload, in metres
MaxDistance == 40

\* the longest list request.modes of the internal-surface workload
MaxApiModes == 2

\* carbon and weather requests made in the repeat workload
MaxOperations == 2

\* requests handled at the same time in the concurrent workload
MaxConcurrent == 3

\* requests of the long workload whose handling raises
MaxFaults == 2

\* the long workload lets one request in FaultPeriod raise
FaultPeriod == 250

\* requests a caller has made, one after the other, before them
MaxPrefill == 58

\* plain requests made between them in the repeat workload
MaxBetween == 1

Clients == {"10.0.0.1", "10.0.0.2"}

BusyClient == "10.0.0.1"

\* the instants, after the start, at which requests of the limiter workload
\* arrive: one second before the window of the first request closes, and
\* the instant it closes
Instants == {59, 60}

Paths == {"/health", "/metrics", "/predict", "/api/transport/route-optimize"}

Statuses == {200, 429, 500}

\* response times, in thousandths of a millisecond
Durations == {1234, 20000}

---------------------------------------------------------------------------
(* Rate limiter: main.py:114-136 *)

\* Prune with the comparison "<=": a timestamp exactly one window old is kept
PruneKeepsBoundary(window, current_time) ==
    SelectSeq(window, LAMBDA timestamp : current_time - timestamp <= RateWindowSeconds)

\* main.py:120-123: the timestamps younger than the window are kept
Prune(window, current_time) ==
    SelectSeq(window, LAMBDA timestamp : current_time - timestamp < RateWindowSeconds)

\* OverLimit with the comparison ">": one request too many is admitted
OverLimitOffByOne(window) == Len(window) > RateLimitMax

\* main.py:126
OverLimit(window) == Len(window) >= RateLimitMax

\* rate_limit_middleware with the timestamp appended before the check: the
\* rejected request is recorded too
rate_limit_middleware_append_first(storage, client_ip, current_time) ==
    LET pruned == Prune(storage[client_ip], current_time)
    IN  [storage  |-> [storage EXCEPT ![client_ip] = Append(pruned, current_time)],
         rejected |-> OverLimit(pruned)]

\* rate_limit_middleware with one window for all the clients
rate_limit_middleware_one_window(storage, client_ip, current_time) ==
    LET pruned == [c \in DOMAIN storage |-> Prune(storage[c], current_time)]
    IN  IF \E c \in DOMAIN storage : OverLimit(pruned[c])
        THEN [storage |-> pruned, rejected |-> TRUE]
        ELSE [storage  |-> [pruned EXCEPT ![client_ip] = Append(@, current_time)],
              rejected |-> FALSE]

\* main.py:116-131: the new storage, and whether HTTPException(429) is raised.
\* The prune is stored before the check; the timestamp is appended after it.
rate_limit_middleware(storage, client_ip, current_time) ==
    LET pruned == Prune(storage[client_ip], current_time)
    IN  IF OverLimit(pruned)
        THEN [storage  |-> [storage EXCEPT ![client_ip] = pruned],
              rejected |-> TRUE]
        ELSE [storage  |-> [storage EXCEPT ![client_ip] = Append(pruned, current_time)],
              rejected |-> FALSE]

---------------------------------------------------------------------------
(* Metrics collector: main.py:174-205 *)

\* AppendResponseTime with the slice [:1000]: the newest sample is dropped
AppendResponseTimeKeepsOldest(response_times, duration_ms) ==
    LET appended == Append(response_times, duration_ms)
    IN  IF Len(appended) > MaxResponseTimes
        THEN SubSeq(appended, 1, MaxResponseTimes)
        ELSE appended

\* main.py:198-200
AppendResponseTime(response_times, duration_ms) ==
    LET appended == Append(response_times, duration_ms)
    IN  IF Len(appended) > MaxResponseTimes
        THEN SubSeq(appended, Len(appended) - MaxResponseTimes + 1, Len(appended))
        ELSE appended

\* RecordResponse with the per-endpoint table assigned instead of updated
RecordResponseOverwrites(m, path, status_code, duration_ms) ==
    [m EXCEPT !.requests_total = @ + 1,
              !.requests_by_endpoint = [p \in DOMAIN @ |-> IF p = path THEN 1 ELSE 0],
              !.requests_by_status[status_code] = @ + 1,
              !.response_times = AppendResponseTime(@, duration_ms)]

\* main.py:192-200: call_next returned a response
RecordResponse(m, path, status_code, duration_ms) ==
    [m EXCEPT !.requests_total = @ + 1,
              !.requests_by_endpoint[path] = @ + 1,
              !.requests_by_status[status_code] = @ + 1,
              !.response_times = AppendResponseTime(@, duration_ms)]

\* RecordError that counts the request too
RecordErrorCountsRequest(m) ==
    [m EXCEPT !.errors_total = @ + 1, !.requests_total = @ + 1]

\* main.py:203-205: call_next raised
RecordError(m) == [m EXCEPT !.errors_total = @ + 1]

\* main.py:184-205.  result.raised says whether call_next raised.
metrics_middleware(m, path, result, duration_ms) ==
    IF result.raised
    THEN RecordError(m)
    ELSE RecordResponse(m, path, result.status, duration_ms)

---------------------------------------------------------------------------
(* Metrics snapshot: main.py:235-261 *)

\* sum(s[lo..hi]), by halves
RECURSIVE SumRange(_, _, _)
SumRange(s, lo, hi) ==
    IF lo > hi THEN 0
    ELSE IF lo = hi THEN s[lo]
    ELSE LET mid == (lo + hi) \div 2
         IN  SumRange(s, lo, mid) + SumRange(s, mid + 1, hi)

\* sum(response_times)
Sum(s) == SumRange(s, 1, Len(s))

\* max(s[lo..hi]), by halves; lo <= hi
RECURSIVE MaxRange(_, _, _)
MaxRange(s, lo, hi) ==
    IF lo = hi THEN s[lo]
    ELSE LET mid == (lo + hi) \div 2
             a == MaxRange(s, lo, mid)
             b == MaxRange(s, mid + 1, hi)
         IN  IF a > b THEN a ELSE b

\* max(response_times), of a list that is not empty
Max(s) == MaxRange(s, 1, Len(s))

\* sorted(response_times)
Sorted(s) == SortSeq(s, LAMBDA a, b : a < b)

\* round(x, 2) of a value in milliseconds, on its count of thousandths: the
\* nearest multiple of ten thousandths.  None of the durations of this model
\* ends in 5, so no value lies half way between two roundings.
Round2(x) == ((x + 5) \div 10) * 10

\* round(total / n, 2), half way cases to the even hundredth
Round2Ratio(total, n) ==
    LET q == total \div (10 * n)
        r == total % (10 * n)
    IN  IF 2 * r > 10 * n \/ (2 * r = 10 * n /\ q % 2 = 1)
        THEN 10 * (q + 1)
        ELSE 10 * q

\* P95Index with the factor 0.9
P95IndexNinety(n) == (n * 90) \div 100

\* main.py:244, int(len(response_times) * 0.95)
P95Index(n) == (n * 95) \div 100

\* main.py:244.  Python indexes from 0, a TLA+ sequence from 1.
p95_response_time(response_times) ==
    IF Len(response_times) > P95MinSamples
    THEN Sorted(response_times)[P95Index(Len(response_times)) + 1]
    ELSE 0

\* main.py:242
avg_response_time(response_times) ==
    IF response_times # << >>
    THEN Round2Ratio(Sum(response_times), Len(response_times))
    ELSE 0

\* main.py:243
max_response_time(response_times) ==
    IF response_times # << >> THEN Max(response_times) ELSE 0

\* main.py:246-256, without the uptime and the model status
get_metrics(m) ==
    [requests_total       |-> m.requests_total,
     errors_total         |-> m.errors_total,
     requests_by_endpoint |-> m.requests_by_endpoint,
     requests_by_status   |-> m.requests_by_status,
     avg                  |-> avg_response_time(m.response_times),
     max                  |-> Round2(max_response_time(m.response_times)),
     p95                  |-> Round2(p95_response_time(m.response_times)),
     samples              |-> Len(m.response_times)]

NoSnapshot ==
    [requests_total |-> 0, errors_total |-> 0,
     requests_by_endpoint |-> [p \in Paths |-> 0],
     requests_by_status |-> [c \in Statuses |-> 0],
     avg |-> 0, max |-> 0, p95 |-> 0, samples |-> 0]

---------------------------------------------------------------------------
(* One inbound HTTP request through the middleware stack *)

\* What the endpoint does once the request reaches it: it returns a response
\* (an HTTPException raised by an endpoint is turned into a response of its
\* status by the router) or it raises something else.
Returns(status_code) == [raised |-> FALSE, status |-> status_code]

Raises == [raised |-> TRUE, status |-> 0]

\* main.py:207-261 (health, metrics: always 200), main.py:263-279 (predict:
\* 200, HTTPException 500, or a fault of the model's predict), main.py:689-745
\* (route_optimize: 200 or HTTPException 500)
EndpointResults(path) ==
    CASE path = "/health" -> {Returns(200)}
      [] path = "/metrics" -> {Returns(200)}
      [] path = "/predict" -> {Returns(200), Returns(500), Raises}
      [] path = "/api/transport/route-optimize" ->
            {Returns(200), Returns(500)}

\* An exception that leaves the outermost middleware is answered by the
\* server's error handler: main.py:136 registers rate_limit_middleware as a
\* middleware, outside the router's HTTPException handling, and main.py:203-205
\* re-raises whatever call_next raised.
UnhandledExceptionResponse == [status |-> 500, detail |-> "Internal Server Error"]

\* main.py:128
RateLimitException ==
    [status |-> TooManyRequests, detail |-> "Too many requests. Please try again later."]

\* The middleware stack, outermost first: metrics_middleware (main.py:183),
\* logging_middleware (main.py:139), rate_limit_middleware (main.py:136), the
\* endpoint.  A rejection is raised by rate_limit_middleware (main.py:128),
\* re-raised by logging_middleware (main.py:171) and by metrics_middleware
\* (main.py:205).
Request(current_time, client_ip, path, endpoint, duration_ms) ==
    LET limiter == rate_limit_middleware(rate_limit_storage, client_ip, current_time)
        result  == IF limiter.rejected THEN Raises ELSE endpoint
    IN  /\ current_time >= clock
        /\ clock' = current_time
        /\ rate_limit_storage' = limiter.storage
        /\ metrics_storage' = metrics_middleware(metrics_storage, path, result, duration_ms)
        /\ snapshot' = IF ~limiter.rejected /\ path = "/metrics"
                       THEN get_metrics(metrics_storage)
                       ELSE snapshot
        /\ last' = [op       |-> "request",
                    client   |-> client_ip,
                    path     |-> path,
                    time     |-> current_time,
                    duration |-> duration_ms,
                    rejected |-> limiter.rejected,
                    raised   |-> result.raised,
                    raising  |-> IF limiter.rejected THEN RateLimitException.status ELSE 0,
                    status   |-> IF result.raised
                                 THEN UnhandledExceptionResponse.status
                                 ELSE result.status,
                    detail   |-> IF result.raised
                                 THEN UnhandledExceptionResponse.detail
                                 ELSE "endpoint"]
        /\ admitted_log' = IF limiter.rejected
                           THEN admitted_log
                           ELSE [admitted_log EXCEPT ![client_ip] = Append(@, current_time)]
        /\ samples_log' = IF result.raised
                          THEN samples_log
                          ELSE Append(samples_log, duration_ms)
        /\ sent' = [sent EXCEPT ![client_ip] = @ + 1]
        /\ UNCHANGED route_vars
        /\ UNCHANGED api_vars
        /\ UNCHANGED conc_vars

---------------------------------------------------------------------------
(* What the three provider clients share.  A client returns a dict, or it  *)
(* raises; it sends at most what its code sends.  The environment's part   *)
(* in one invocation is a reply: the API key is missing ("no_key"), the    *)
(* transport fails ("timeout", "connection", "request_error"), or the      *)
(* vendor answers.                                                         *)

\* the dict of a failure: api_integrations.py:97-100 and the like
Fail(message) == [success |-> FALSE, error |-> message]

\* f'API request failed with status {response.status_code}':
\* api_integrations.py:179, 282, 391
api_request_failed_with_status(status_code) ==
    "API request failed with status " \o ToString(status_code)

\* f'API request failed: {str(e)}': api_integrations.py:212, 317, 467
api_request_failed(exception) == "API request failed: " \o exception

\* f'Unexpected error: {str(e)}': api_integrations.py:219, 331, 481
unexpected_error(exception) == "Unexpected error: " \o exception

\* the client returns dict, having sent the calls of outbound
ClientReturn(dict, outbound) ==
    [raised |-> "", message |-> "", dict |-> dict, outbound |-> outbound]

\* the client raises before it sends anything
ClientRaise(type, message) ==
    [raised |-> type, message |-> message, dict |-> [success |-> FALSE],
     outbound |-> << >>]

\* one invocation of a provider client, as the history keeps it
Invocation(client, reply, call) ==
    [client |-> client, kind |-> reply.kind, http_status |-> reply.http_status,
     reply |-> reply,
     raised |-> call.raised, dict |-> call.dict, outbound |-> call.outbound]

NoInvocation ==
    [client |-> "", kind |-> "", http_status |-> 0, reply |-> [kind |-> ""],
     raised |-> "", dict |-> [success |-> FALSE], outbound |-> << >>]

---------------------------------------------------------------------------
(* Route Planner client: api_integrations.py:335-482 *)
(* Distances are in metres, durations in seconds; distance_km is counted   *)
(* in hundredths of a kilometre, duration_min in tenths of a minute and    *)
(* co2_kg in grams.                                                        *)

\* api_integrations.py:357
valid_modes == {"driving", "transit", "walking", "bicycling"}

\* a table in which walking emits as driving does
emission_factors_walking_emits(mode) ==
    CASE mode = "driving" -> 171
      [] mode = "transit" -> 89
      [] mode = "walking" -> 171
      [] mode = "bicycling" -> 0

\* api_integrations.py:424-429, in grams of CO2 per kilometre
emission_factors(mode) ==
    CASE mode = "driving" -> 171
      [] mode = "transit" -> 89
      [] mode = "walking" -> 0
      [] mode = "bicycling" -> 0

\* a / b cut off
RoundDivTruncates(a, b) == a \div b

\* round(a / b) for a >= 0 and b > 0: the nearest integer, a half to the even one
RoundDiv(a, b) ==
    LET q == a \div b
        r == a % b
    IN  IF 2 * r > b \/ (2 * r = b /\ q % 2 = 1) THEN q + 1 ELSE q

\* api_integrations.py:398-406
error_messages(status) ==
    CASE status = "NOT_FOUND" -> "One or more locations could not be found"
      [] status = "ZERO_RESULTS" -> "No route could be found between the locations"
      [] status = "MAX_WAYPOINTS_EXCEEDED" -> "Too many waypoints provided"
      [] status = "INVALID_REQUEST" -> "Invalid request parameters"
      [] status = "OVER_QUERY_LIMIT" -> "API query limit exceeded"
      [] status = "REQUEST_DENIED" -> "API request denied"
      [] status = "UNKNOWN_ERROR" -> "Unknown error occurred"
      [] OTHER -> "API error: " \o status

\* What the environment does with one call: the API key is missing
\* ("no_key"), the transport fails ("timeout", "connection", "request_error"),
\* the vendor answers with an HTTP status other than 200 ("http"), with 200
\* and a status other than OK ("api_status"), with 200 and a body that lacks
\* a field ("malformed"), or with a route ("ok").
Reply(kind, http_status, api_status, distance_m, duration_s) ==
    [kind |-> kind, http_status |-> http_status, api_status |-> api_status,
     distance_m |-> distance_m, duration_s |-> duration_s]

Failure(message, called) ==
    [raised |-> "", success |-> FALSE, error |-> message, called |-> called,
     distance_km |-> 0, duration_min |-> 0, co2_kg |-> 0]

\* api_integrations.py:359-360, raise ValueError
InvalidMode ==
    [raised |-> "ValueError", success |-> FALSE, called |-> FALSE,
     error |-> "Invalid mode. Must be one of: ['driving', 'transit', 'walking', 'bicycling']",
     distance_km |-> 0, duration_min |-> 0, co2_kg |-> 0]

\* api_integrations.py:362-482: the try block and its except clauses
route_emissions_try(mode, reply) ==
    CASE reply.kind = "no_key" ->        \* api_integrations.py:363-369
           Failure("API key not configured", FALSE)
      [] reply.kind = "timeout" ->       \* api_integrations.py:449-454
           Failure("API request timed out", TRUE)
      [] reply.kind = "connection" ->    \* api_integrations.py:456-461
           Failure("Could not connect to API. Please check your internet connection.", TRUE)
      [] reply.kind = "request_error" -> \* api_integrations.py:463-468
           Failure(api_request_failed("<exception>"), TRUE)
      [] reply.kind = "http" ->          \* api_integrations.py:387-392
           Failure(api_request_failed_with_status(reply.http_status), TRUE)
      [] reply.kind = "api_status" ->    \* api_integrations.py:396-410
           Failure(error_messages(reply.api_status), TRUE)
      [] reply.kind = "malformed" ->     \* api_integrations.py:470-475
           Failure("Invalid API response format", TRUE)
      [] reply.kind = "ok" ->            \* api_integrations.py:413-447
           [raised |-> "", success |-> TRUE, error |-> "", called |-> TRUE,
            distance_km  |-> RoundDiv(reply.distance_m, 10),
            duration_min |-> RoundDiv(reply.duration_s, 6),
            co2_kg       |-> RoundDiv(reply.distance_m * emission_factors(mode), 1000)]

\* calculate_route_emissions without the except clause of requests' Timeout:
\* the timeout leaves the client as an exception
calculate_route_emissions_timeout_escapes(mode, reply) ==
    IF mode \notin valid_modes THEN InvalidMode
    ELSE IF reply.kind = "timeout"
    THEN [raised |-> "Timeout", success |-> FALSE, called |-> TRUE, error |-> "",
          distance_km |-> 0, duration_min |-> 0, co2_kg |-> 0]
    ELSE route_emissions_try(mode, reply)

\* api_integrations.py:335-482
calculate_route_emissions(mode, reply) ==
    IF mode \notin valid_modes THEN InvalidMode ELSE route_emissions_try(mode, reply)

\* the dict calculate_route_emissions returns: api_integrations.py:433-441
\* of a route, and the dicts of its failures
route_emissions_dict(result) ==
    IF result.success
    THEN [success |-> TRUE, distance_km |-> result.distance_km,
          duration_min |-> result.duration_min, co2_kg |-> result.co2_kg]
    ELSE Fail(result.error)

\* api_integrations.py:381-385, requests.get: the one request of a call
route_emissions_outbound(mode, result) ==
    IF result.called
    THEN << [vendor |-> "maps.googleapis.com", mode |-> mode] >>
    ELSE << >>

---------------------------------------------------------------------------
(* Route comparator: main.py:689-745 *)

NoResponse ==
    [status |-> 0, detail |-> "", routes |-> << >>, recommended |-> "",
     savings_co2_kg |-> 0]

\* an HTTPException leaves the endpoint: the caller receives its status and
\* its detail, and no body
ErrorResponse(status_code, detail) ==
    [status |-> status_code, detail |-> detail, routes |-> << >>,
     recommended |-> "", savings_co2_kg |-> 0]

\* except clauses that answer every exception with 500
route_optimize_except_all_500(exception) ==
    ErrorResponse(500, "Internal server error")

\* main.py:740-745: what the except clauses of route_optimize make of an
\* exception raised inside its try block.  HTTPException is an Exception and
\* no ValueError, so the clause of main.py:743 catches the HTTPException of
\* main.py:720 too.
route_optimize_except(exception) ==
    IF exception.type = "ValueError"
    THEN ErrorResponse(400, exception.message)
    ELSE ErrorResponse(500, "Internal server error")

\* a min that keeps the last route of the least co2_kg
FirstMinTakesLast(rs) ==
    CHOOSE i \in 1..Len(rs) :
        /\ \A j \in 1..Len(rs) : rs[i].co2_kg <= rs[j].co2_kg
        /\ \A j \in (i + 1)..Len(rs) : rs[j].co2_kg > rs[i].co2_kg

\* main.py:723, min(routes, key=...): the first route of the least co2_kg
FirstMin(rs) ==
    CHOOSE i \in 1..Len(rs) :
        /\ \A j \in 1..Len(rs) : rs[i].co2_kg <= rs[j].co2_kg
        /\ \A j \in 1..(i - 1) : rs[j].co2_kg > rs[i].co2_kg

\* a max that takes the first route, whatever its co2_kg
FirstMaxTakesFirst(rs) == 1

\* main.py:727, max(routes, key=...): the first route of the greatest co2_kg
FirstMax(rs) ==
    CHOOSE i \in 1..Len(rs) :
        /\ \A j \in 1..Len(rs) : rs[i].co2_kg >= rs[j].co2_kg
        /\ \A j \in 1..(i - 1) : rs[j].co2_kg < rs[i].co2_kg

\* a comparison that returns one leg for each mode, the first of that mode
route_optimize_result_one_leg_per_mode(rs) ==
    IF rs = << >>
    THEN route_optimize_except(
             [type |-> "HTTPException", message |-> "Could not calculate any routes"])
    ELSE LET recommended_route == rs[FirstMin(rs)]
             highest_emission_route == rs[FirstMax(rs)]
             first == {i \in 1..Len(rs) : \A j \in 1..(i - 1) : rs[j].mode # rs[i].mode}
             nth(k) == CHOOSE i \in first : Cardinality({j \in first : j <= i}) = k
         IN  [status |-> 200, detail |-> "",
              routes |-> [k \in 1..Cardinality(first) |-> rs[nth(k)]],
              recommended |-> recommended_route.mode,
              savings_co2_kg |->
                  10 * RoundDiv(highest_emission_route.co2_kg
                                    - recommended_route.co2_kg, 10)]

\* main.py:719-735, of a list routes that may be empty.  savings_co2_kg is
\* in grams, a multiple of ten: round(..., 2).
route_optimize_result(rs) ==
    IF rs = << >>
    THEN route_optimize_except(
             [type |-> "HTTPException", message |-> "Could not calculate any routes"])
    ELSE LET recommended_route == rs[FirstMin(rs)]
             highest_emission_route == rs[FirstMax(rs)]
         IN  [status |-> 200, detail |-> "", routes |-> rs,
              recommended |-> recommended_route.mode,
              savings_co2_kg |->
                  10 * RoundDiv(highest_emission_route.co2_kg
                                    - recommended_route.co2_kg, 10)]

\* main.py:690-697: the request arrives
RouteStart(request_modes) ==
    /\ route_pc = "idle"
    /\ route_pc' = "loop"
    /\ route_modes' = request_modes
    /\ route_index' = 1
    /\ routes' = << >>
    /\ route_response' = NoResponse
    /\ route_calls' = << >>
    /\ UNCHANGED service_vars
    /\ UNCHANGED conc_vars
    /\ UNCHANGED api_vars

\* a loop that asks the planner for the same mode again until it succeeds
RouteStepRetries(reply) ==
    /\ route_pc = "loop"
    /\ route_index <= Len(route_modes)
    /\ LET mode == route_modes[route_index]
           result == calculate_route_emissions(mode, reply)
       IN  /\ IF result.success
              THEN /\ route_index' = route_index + 1
                   /\ route_calls' = Append(route_calls,
                                            [mode |-> mode, success |-> TRUE,
                                             raised |-> "", called |-> result.called,
                                             distance_m |-> reply.distance_m])
                   /\ routes' = Append(routes,
                                       [mode         |-> mode,
                                        distance_km  |-> result.distance_km,
                                        duration_min |-> result.duration_min,
                                        co2_kg       |-> result.co2_kg])
              ELSE UNCHANGED << route_index, route_calls, routes >>
           /\ last_call' =
                 Invocation("route", reply,
                            [raised   |-> result.raised,
                             dict     |-> route_emissions_dict(result),
                             outbound |-> route_emissions_outbound(mode, result)])
    /\ UNCHANGED << route_pc, route_response, route_modes >>
    /\ UNCHANGED service_vars
    /\ UNCHANGED conc_vars
    /\ UNCHANGED << api_request, api_response, api_log >>

\* main.py:699-717: one turn of the loop
RouteStep(reply) ==
    /\ route_pc = "loop"
    /\ route_index <= Len(route_modes)
    /\ LET mode == route_modes[route_index]
           result == calculate_route_emissions(mode, reply)
       IN  /\ route_calls' = Append(route_calls,
                                    [mode |-> mode, success |-> result.success,
                                     raised |-> result.raised, called |-> result.called,
                                     distance_m |-> IF result.success
                                                    THEN reply.distance_m ELSE 0])
           /\ IF result.raised # ""
              THEN /\ route_pc' = "done"
                   /\ route_response' =
                         route_optimize_except([type |-> result.raised,
                                                message |-> result.error])
                   /\ UNCHANGED << route_index, routes >>
              ELSE /\ route_index' = route_index + 1
                   /\ routes' = IF result.success
                                THEN Append(routes,
                                            [mode         |-> mode,
                                             distance_km  |-> result.distance_km,
                                             duration_min |-> result.duration_min,
                                             co2_kg       |-> result.co2_kg])
                                ELSE routes
                   /\ UNCHANGED << route_pc, route_response >>
           /\ last_call' =
                 Invocation("route", reply,
                            [raised   |-> result.raised,
                             dict     |-> route_emissions_dict(result),
                             outbound |-> route_emissions_outbound(mode, result)])
    /\ UNCHANGED << route_modes >>
    /\ UNCHANGED service_vars
    /\ UNCHANGED conc_vars
    /\ UNCHANGED << api_request, api_response, api_log >>

\* main.py:719-738: after the loop
RouteFinish ==
    /\ route_pc = "loop"
    /\ route_index > Len(route_modes)
    /\ route_pc' = "done"
    /\ route_response' = route_optimize_result(routes)
    /\ UNCHANGED << route_modes, route_index, routes, route_calls >>
    /\ UNCHANGED service_vars
    /\ UNCHANGED conc_vars
    /\ UNCHANGED api_vars

---------------------------------------------------------------------------
(* Carbon Estimator client: api_integrations.py:59-220.  The magnitude and *)
(* co2e are whole numbers of the unit and of grams.                        *)

\* api_integrations.py:84
valid_activities == {"transport_car", "transport_bus", "diet_meat", "energy_electricity"}

\* api_integrations.py:85
valid_units == {"km", "kg", "kWh"}

\* api_integrations.py:109-142, the activity_id of the emission factor
activity_mapping(activity_type) ==
    CASE activity_type = "transport_car" ->
           "passenger_vehicle-vehicle_type_car-fuel_source_na-engine_size_na-vehicle_age_na-vehicle_weight_na"
      [] activity_type = "transport_bus" ->
           "passenger_vehicle-vehicle_type_bus-fuel_source_na-engine_size_na-vehicle_age_na-vehicle_weight_na"
      [] activity_type = "diet_meat" -> "consumer_goods-type_meat_products"
      [] activity_type = "energy_electricity" -> "electricity-supply_grid-source_grid_mix"

\* api_integrations.py:147-155, body["parameters"] without its None values
parameters(value, unit) ==
    CASE unit = "km" -> [distance |-> value]
      [] unit = "kg" -> [weight |-> value]
      [] unit = "kWh" -> [energy |-> value]

\* What the vendor answers: an HTTP status and a body.  The body is no JSON
\* ("invalid"), a JSON array ("array") or a JSON object ("object") that has
\* co2e or not, co2e_calculation_origin or not, and whose emission_factor is
\* absent (""), an object with a source ("source"), an object without
\* ("empty") or no object ("string").
CarbonBody(shape, has_co2e, co2e, has_origin, emission_factor) ==
    [shape |-> shape, has_co2e |-> has_co2e, co2e |-> co2e,
     has_origin |-> has_origin, emission_factor |-> emission_factor]

NoBody == CarbonBody("invalid", FALSE, 0, FALSE, "")

CarbonReply(kind, http_status, body) ==
    [kind |-> kind, http_status |-> http_status, body |-> body]

\* api_integrations.py:182-192: response.json() and the result of it.
\* response.json() of a body that is no JSON raises requests' JSONDecodeError,
\* a RequestException (api_integrations.py:208); .get of a value that is no
\* dict raises AttributeError (api_integrations.py:215).
carbon_climatiq_result(body) ==
    CASE body.shape = "invalid" -> Fail(api_request_failed("<exception>"))
      [] body.shape = "array" -> Fail(unexpected_error("<exception>"))
      [] body.shape = "object" /\ body.emission_factor = "string" ->
           Fail(unexpected_error("<exception>"))
      [] OTHER ->
           [success     |-> TRUE,
            co2_kg      |-> IF body.has_co2e THEN body.co2e ELSE 0,
            confidence  |-> IF body.has_origin THEN "source" ELSE "unknown",
            data_source |-> IF body.emission_factor = "source" THEN "BEIS" ELSE "Climatiq"]

\* api_integrations.py:93-220: the try block and its except clauses
carbon_climatiq_try(activity_type, value, unit, reply) ==
    LET post == [vendor |-> "api.climatiq.io",
                 activity_id |-> activity_mapping(activity_type),
                 parameters |-> parameters(value, unit)]
    IN  CASE reply.kind = "no_key" ->        \* api_integrations.py:94-100
               ClientReturn(Fail("API key not configured"), << >>)
          [] reply.kind = "timeout" ->       \* api_integrations.py:194-199
               ClientReturn(Fail("API request timed out"), << post >>)
          [] reply.kind = "connection" ->    \* api_integrations.py:201-206
               ClientReturn(
                   Fail("Could not connect to API. Please check your internet connection."),
                   << post >>)
          [] reply.kind = "request_error" -> \* api_integrations.py:208-213
               ClientReturn(Fail(api_request_failed("<exception>")), << post >>)
          [] reply.kind = "response" /\ reply.http_status = 429 ->
               \* api_integrations.py:167-172
               ClientReturn(Fail("API rate limit exceeded. Please try again later."),
                            << post >>)
          [] reply.kind = "response" /\ reply.http_status \notin {200, 429} ->
               \* api_integrations.py:175-180
               ClientReturn(Fail(api_request_failed_with_status(reply.http_status)),
                            << post >>)
          [] reply.kind = "response" /\ reply.http_status = 200 ->
               ClientReturn(carbon_climatiq_result(reply.body), << post >>)

\* a client that posts again after a timeout
calculate_carbon_climatiq_retries(activity_type, value, unit, reply) ==
    LET once == carbon_climatiq_try(activity_type, value, unit, reply)
    IN  IF activity_type \notin valid_activities \/ unit \notin valid_units
        THEN ClientRaise("ValueError", "Invalid activity_type or unit")
        ELSE IF reply.kind = "timeout"
        THEN ClientReturn(once.dict, once.outbound \o once.outbound)
        ELSE once

\* a client without the clause "except Exception" of api_integrations.py:215
calculate_carbon_climatiq_no_catch_all(activity_type, value, unit, reply) ==
    LET caught == carbon_climatiq_try(activity_type, value, unit, reply)
    IN  IF activity_type \notin valid_activities \/ unit \notin valid_units
        THEN ClientRaise("ValueError", "Invalid activity_type or unit")
        ELSE IF reply.kind = "response" /\ reply.http_status = 200
                /\ (reply.body.shape = "array" \/ reply.body.emission_factor = "string")
        THEN [raised |-> "AttributeError", message |-> "<exception>",
              dict |-> [success |-> FALSE], outbound |-> caught.outbound]
        ELSE caught

\* api_integrations.py:59-220
calculate_carbon_climatiq(activity_type, value, unit, reply) ==
    IF activity_type \notin valid_activities       \* api_integrations.py:87-88
    THEN ClientRaise("ValueError",
             "Invalid activity_type. Must be one of: ['transport_car', 'transport_bus', 'diet_meat', 'energy_electricity']")
    ELSE IF unit \notin valid_units                \* api_integrations.py:90-91
    THEN ClientRaise("ValueError", "Invalid unit. Must be one of: ['km', 'kg', 'kWh']")
    ELSE carbon_climatiq_try(activity_type, value, unit, reply)

---------------------------------------------------------------------------
(* Weather Reader client: api_integrations.py:223-332.  The temperature is *)
(* in tenths of a degree Celsius, the wind speed in tenths of the          *)
(* provider's unit; a text is the sequence of its characters.              *)

\* What the vendor answers with status 200: a body that is no JSON
\* ("invalid"), or a JSON object in which a key is missing (missing names
\* it: "main", "main.temp", "main.humidity", "weather", "wind",
\* "wind.speed"), in which weather is an empty list ("weather[0]"), or in
\* which nothing is missing ("").
WeatherBody(shape, missing, temp, main, speed) ==
    [shape |-> shape, missing |-> missing, temp |-> temp, main |-> main,
     speed |-> speed]

WeatherReply(kind, http_status, body) ==
    [kind |-> kind, http_status |-> http_status, body |-> body]

\* api_integrations.py:285-297: response.json() and the result of it.  A
\* missing key raises KeyError (api_integrations.py:320); weather[0] of an
\* empty list raises IndexError (api_integrations.py:327).
get_weather_data_result(body) ==
    CASE body.shape = "invalid" -> Fail(api_request_failed("<exception>"))
      [] body.shape = "object" /\ body.missing = "weather[0]" ->
           Fail(unexpected_error("list index out of range"))
      [] body.shape = "object" /\ body.missing \notin {"", "weather[0]"} ->
           Fail("Invalid API response format")
      [] OTHER ->
           [success     |-> TRUE,
            temperature |-> body.temp,
            conditions  |-> body.main,
            description |-> "<description>",
            humidity    |-> 50,
            wind_speed  |-> body.speed]

\* api_integrations.py:223-332
get_weather_data(reply) ==
    LET get == [vendor |-> "api.openweathermap.org", units |-> "metric"]
    IN  CASE reply.kind = "no_key" ->        \* api_integrations.py:240-246
               ClientReturn(Fail("API key not configured"), << >>)
          [] reply.kind = "timeout" ->       \* api_integrations.py:299-304
               ClientReturn(Fail("API request timed out"), << get >>)
          [] reply.kind = "connection" ->    \* api_integrations.py:306-311
               ClientReturn(
                   Fail("Could not connect to API. Please check your internet connection."),
                   << get >>)
          [] reply.kind = "request_error" -> \* api_integrations.py:313-318
               ClientReturn(Fail(api_request_failed("<exception>")), << get >>)
          [] reply.kind = "response" /\ reply.http_status = 401 ->
               ClientReturn(Fail("Invalid API key"), << get >>)
          [] reply.kind = "response" /\ reply.http_status = 404 ->
               ClientReturn(Fail("Location not found"), << get >>)
          [] reply.kind = "response" /\ reply.http_status \notin {200, 401, 404} ->
               \* api_integrations.py:278-283
               ClientReturn(Fail(api_request_failed_with_status(reply.http_status)),
                            << get >>)
          [] reply.kind = "response" /\ reply.http_status = 200 ->
               ClientReturn(get_weather_data_result(reply.body), << get >>)

---------------------------------------------------------------------------
(* Weather advisory: main.py:637-668 *)

\* n whole units in tenths
Tenths(n) == 10 * n

\* str.lower() of one character, of the letters the readings use
LowerChar(c) ==
    CASE c = "C" -> "c" [] c = "L" -> "l" [] c = "E" -> "e" [] c = "A" -> "a"
      [] c = "R" -> "r" [] c = "I" -> "i" [] c = "N" -> "n" [] c = "S" -> "s"
      [] c = "U" -> "u" [] c = "O" -> "o" [] c = "D" -> "d" [] c = "M" -> "m"
      [] c = "T" -> "t" [] c = "Y" -> "y"
      [] OTHER -> c

\* main.py:640, .lower()
Lower(text) == [i \in 1..Len(text) |-> LowerChar(text[i])]

\* "word in text" of two strings
Contains(text, word) ==
    \E i \in 1..(Len(text) - Len(word) + 1) :
        SubSeq(text, i, i + Len(word) - 1) = word

\* a rule whose first bucket takes the temperatures from 25 on
temperature_recommendations_from_25(temp) ==
    IF temp >= Tenths(25)
    THEN << "Consider using a fan instead of AC to save energy",
            "Open windows in the evening for natural cooling",
            "Use window shades during peak sun hours" >>
    ELSE IF temp < Tenths(10)
    THEN << "Layer clothing before turning up the heat",
            "Use draft excluders to keep heat in",
            "Drink warm beverages to feel warmer naturally" >>
    ELSE << "Perfect temperature for natural ventilation",
            "Consider reducing heating/cooling usage" >>

\* main.py:642-653
temperature_recommendations(temp) ==
    IF temp > Tenths(25)
    THEN << "Consider using a fan instead of AC to save energy",
            "Open windows in the evening for natural cooling",
            "Use window shades during peak sun hours" >>
    ELSE IF temp < Tenths(10)
    THEN << "Layer clothing before turning up the heat",
            "Use draft excluders to keep heat in",
            "Drink warm beverages to feel warmer naturally" >>
    ELSE << "Perfect temperature for natural ventilation",
            "Consider reducing heating/cooling usage" >>

\* main.py:655-664
condition_recommendations(conditions) ==
    IF Contains(conditions, << "c", "l", "e", "a", "r" >>)
       \/ Contains(conditions, << "s", "u", "n" >>)
    THEN << "Great day for line-drying laundry instead of using dryer",
            "Open curtains to warm your home naturally",
            "Excellent conditions for solar charging devices" >>
    ELSE IF Contains(conditions, << "r", "a", "i", "n" >>)
    THEN << "Collect rainwater for plants and garden use",
            "Good day to work from home and reduce transport emissions" >>
    ELSE IF Contains(conditions, << "c", "l", "o", "u", "d" >>)
    THEN << "Mild conditions - perfect for outdoor activities without AC" >>
    ELSE << >>

\* main.py:666-668
wind_recommendations(wind_speed) ==
    IF wind_speed > Tenths(5)
    THEN << "Windy day - perfect for air-drying laundry quickly" >>
    ELSE << >>

\* an advisory that puts the condition suggestions first
recommendations_conditions_first(weather_result) ==
    condition_recommendations(Lower(weather_result.conditions))
        \o temperature_recommendations(weather_result.temperature)
        \o wind_recommendations(weather_result.wind_speed)

\* main.py:638-668
recommendations(weather_result) ==
    temperature_recommendations(weather_result.temperature)
        \o condition_recommendations(Lower(weather_result.conditions))
        \o wind_recommendations(weather_result.wind_speed)

---------------------------------------------------------------------------
(* The carbon and the weather endpoint: main.py:588-687 *)

NoRequest == [op |-> "", activity_type |-> "", value |-> 0, unit |-> ""]

NoApiResponse == [status |-> 0, detail |-> "", body |-> [none |-> TRUE]]

\* an HTTPException leaves the endpoint
ApiError(status_code, detail) ==
    [status |-> status_code, detail |-> detail, body |-> [none |-> TRUE]]

\* main.py:602-622, of the result of the client.  The HTTPException of
\* main.py:603 is raised inside the try block and is no ValueError: the
\* clause of main.py:620 catches it.  timestamp is the time of the answer,
\* main.py:610; location, which repeats a field of the request, is left out.
calculate_carbon_response(result, now) ==
    IF result.raised = "ValueError"
    THEN ApiError(400, result.message)           \* main.py:617-619
    ELSE IF result.raised # "" \/ ~result.dict.success
    THEN ApiError(500, "Internal server error")  \* main.py:602-603, 620-622
    ELSE [status |-> 200, detail |-> "",         \* main.py:605-615
          body |-> [co2_kg             |-> result.dict.co2_kg,
                    confidence         |-> result.dict.confidence,
                    data_source        |-> result.dict.data_source,
                    calculation_method |-> "api",
                    timestamp          |-> now]]

\* one entry of the history of the carbon and weather requests
LogEntry(request, reply, result, response) ==
    [request |-> request, reply |-> reply, result |-> result.dict,
     response |-> response]

\* an endpoint that adds the number of the earlier requests to co2_kg
calculate_carbon_counts_requests(activity_type, value, unit, reply) ==
    LET result == calculate_carbon_climatiq(activity_type, value, unit, reply)
        request == [op |-> "carbon", activity_type |-> activity_type,
                    value |-> value, unit |-> unit]
        answer == calculate_carbon_response(result, clock)
        response == IF answer.status = 200
                    THEN [answer EXCEPT !.body.co2_kg = @ + Len(api_log)]
                    ELSE answer
    IN  /\ api_request' = request
        /\ last_call' = Invocation("carbon", reply, result)
        /\ api_response' = response
        /\ api_log' = Append(api_log, LogEntry(request, reply, result, response))
        /\ UNCHANGED service_vars
        /\ UNCHANGED conc_vars
    /\ UNCHANGED conc_vars
        /\ UNCHANGED route_vars

\* main.py:588-622
calculate_carbon(activity_type, value, unit, reply) ==
    LET result == calculate_carbon_climatiq(activity_type, value, unit, reply)
        request == [op |-> "carbon", activity_type |-> activity_type,
                    value |-> value, unit |-> unit]
        response == calculate_carbon_response(result, clock)
    IN  /\ api_request' = request
        /\ last_call' = Invocation("carbon", reply, result)
        /\ api_response' = response
        /\ api_log' = Append(api_log, LogEntry(request, reply, result, response))
        /\ UNCHANGED service_vars
        /\ UNCHANGED conc_vars
    /\ UNCHANGED conc_vars
        /\ UNCHANGED route_vars

\* main.py:634-687, of the result of the client.  The HTTPException of
\* main.py:635 is raised inside the try block: the clause of main.py:685
\* catches it.
weather_recommendations_response(weather_result) ==
    IF weather_result.raised # "" \/ ~weather_result.dict.success
    THEN ApiError(500, "Internal server error")  \* main.py:634-635, 685-687
    ELSE [status |-> 200, detail |-> "",         \* main.py:670-683
          body |-> [weather |->
                        [temperature |-> weather_result.dict.temperature,
                         conditions  |-> weather_result.dict.conditions,
                         description |-> weather_result.dict.description,
                         humidity    |-> weather_result.dict.humidity,
                         wind_speed  |-> weather_result.dict.wind_speed],
                    recommendations |-> recommendations(weather_result.dict)]]

\* main.py:624-687
weather_recommendations(reply) ==
    LET weather_result == get_weather_data(reply)
        request == [op |-> "weather", activity_type |-> "", value |-> 0, unit |-> ""]
        response == weather_recommendations_response(weather_result)
    IN  /\ api_request' = request
        /\ last_call' = Invocation("weather", reply, weather_result)
        /\ api_response' = response
        /\ api_log' = Append(api_log, LogEntry(request, reply, weather_result, response))
        /\ UNCHANGED service_vars
        /\ UNCHANGED conc_vars
    /\ UNCHANGED conc_vars
        /\ UNCHANGED route_vars

---------------------------------------------------------------------------
(* Requests handled at the same time.  The three middlewares are           *)
(* coroutines of one event loop (main.py:114, 140, 184; the server is      *)
(* started as one process, main.py:1223-1226): a request keeps the loop    *)
(* from one await to the next, and the endpoints, plain functions, run in  *)
(* the worker threads while the request is suspended at main.py:133.       *)

ProcIds == 1..MaxConcurrent

\* a request that has not arrived
NewProc ==
    [pc |-> "arrive", client |-> "", current_time |-> 0, pruned |-> << >>,
     rejected |-> FALSE, recorded |-> FALSE, handled |-> FALSE,
     outbound |-> << >>, status |-> 0]

\* positions at which a request is suspended if every statement gave way
YieldPointsEverywhere ==
    {"arrive", "limiter", "prune", "store", "check", "record", "raise",
     "handler", "respond", "done"}

\* The positions at which a request is suspended: before it arrives; at the
\* await call_next of main.py:189 and main.py:150, before
\* rate_limit_middleware starts; at the await call_next of main.py:133,
\* before the endpoint runs; when the endpoint has returned and the response
\* travels back; when the request is over.  main.py:116-131 holds no await.
YieldPoints == {"arrive", "limiter", "handler", "respond", "done"}

\* a stack in which a request over the limit is passed to call_next
ControlFlowCallsNextAnyway(pc, over) ==
    CASE pc = "arrive"  -> "limiter"
      [] pc = "limiter" -> "prune"
      [] pc = "prune"   -> "store"
      [] pc = "store"   -> "check"
      [] pc = "check"   -> IF over THEN "handler" ELSE "record"
      [] pc = "record"  -> "handler"
      [] pc = "handler" -> "respond"
      [] pc = "respond" -> "done"
      [] pc = "raise"   -> "done"

\* The position that follows pc: main.py:184-189 and 140-150 (arrive),
\* main.py:116-117 (limiter), main.py:120-123 (prune: the list is built;
\* store: it is assigned), main.py:126-128 (check), main.py:131-133
\* (record), the endpoint (handler), main.py:192-202 (respond),
\* main.py:165-171 and 203-205 (raise).
ControlFlow(pc, over) ==
    CASE pc = "arrive"  -> "limiter"
      [] pc = "limiter" -> "prune"
      [] pc = "prune"   -> "store"
      [] pc = "store"   -> "check"
      [] pc = "check"   -> IF over THEN "raise" ELSE "record"
      [] pc = "record"  -> "handler"
      [] pc = "handler" -> "respond"
      [] pc = "respond" -> "done"
      [] pc = "raise"   -> "done"

\* request p may run: the loop is free, or p holds it
Scheduled(p) == running \in {0, p}

\* who holds the loop once p has moved to position pc
Holder(p, pc) == IF pc \in YieldPoints THEN 0 ELSE p

\* main.py:184-189, main.py:140-150: the request enters the two outer
\* middlewares and is passed on
Arrive(p, client_ip) ==
    /\ procs[p].pc = "arrive"
    /\ Scheduled(p)
    /\ LET to == ControlFlow("arrive", FALSE)
       IN  /\ procs' = [procs EXCEPT ![p] = [@ EXCEPT !.pc = to, !.client = client_ip]]
           /\ running' = Holder(p, to)
    /\ UNCHANGED service_vars
    /\ UNCHANGED route_vars
    /\ UNCHANGED api_vars

\* main.py:116-117
ReadTime(p) ==
    /\ procs[p].pc = "limiter"
    /\ Scheduled(p)
    /\ LET to == ControlFlow("limiter", FALSE)
       IN  /\ procs' = [procs EXCEPT ![p] = [@ EXCEPT !.pc = to, !.current_time = clock]]
           /\ running' = Holder(p, to)
    /\ UNCHANGED service_vars
    /\ UNCHANGED route_vars
    /\ UNCHANGED api_vars

\* main.py:120-123, the right-hand side: the list of the young timestamps
BuildPruned(p) ==
    /\ procs[p].pc = "prune"
    /\ Scheduled(p)
    /\ LET to == ControlFlow("prune", FALSE)
       IN  /\ procs' = [procs EXCEPT ![p] =
                           [@ EXCEPT !.pc = to,
                                     !.pruned = Prune(rate_limit_storage[procs[p].client],
                                                      procs[p].current_time)]]
           /\ running' = Holder(p, to)
    /\ UNCHANGED service_vars
    /\ UNCHANGED route_vars
    /\ UNCHANGED api_vars

\* main.py:120, the assignment
StorePruned(p) ==
    /\ procs[p].pc = "store"
    /\ Scheduled(p)
    /\ LET to == ControlFlow("store", FALSE)
       IN  /\ procs' = [procs EXCEPT ![p] = [@ EXCEPT !.pc = to]]
           /\ running' = Holder(p, to)
    /\ rate_limit_storage' = [rate_limit_storage EXCEPT ![procs[p].client] = procs[p].pruned]
    /\ UNCHANGED << clock, metrics_storage, snapshot, last, admitted_log, samples_log, sent >>
    /\ UNCHANGED route_vars
    /\ UNCHANGED api_vars

\* main.py:126-128
CheckLimit(p) ==
    /\ procs[p].pc = "check"
    /\ Scheduled(p)
    /\ LET over == OverLimit(rate_limit_storage[procs[p].client])
           to == ControlFlow("check", over)
       IN  /\ procs' = [procs EXCEPT ![p] = [@ EXCEPT !.pc = to, !.rejected = over]]
           /\ running' = Holder(p, to)
    /\ UNCHANGED service_vars
    /\ UNCHANGED route_vars
    /\ UNCHANGED api_vars

\* main.py:131-133: the timestamp is appended to the list that is stored
\* now, and the request is passed to the endpoint
RecordTimestamp(p) ==
    /\ procs[p].pc = "record"
    /\ Scheduled(p)
    /\ LET to == ControlFlow("record", FALSE)
       IN  /\ procs' = [procs EXCEPT ![p] = [@ EXCEPT !.pc = to, !.recorded = TRUE]]
           /\ running' = Holder(p, to)
    /\ rate_limit_storage' = [rate_limit_storage EXCEPT ![procs[p].client] =
                                 Append(@, procs[p].current_time)]
    /\ admitted_log' = [admitted_log EXCEPT ![procs[p].client] =
                           Append(@, procs[p].current_time)]
    /\ UNCHANGED << clock, metrics_storage, snapshot, last, samples_log, sent >>
    /\ UNCHANGED route_vars
    /\ UNCHANGED api_vars

\* main.py:689-745 of a request with the one mode "driving": what the
\* caller receives, of the result of the client
route_optimize_driving(result) ==
    IF result.raised # ""
    THEN route_optimize_except([type |-> result.raised, message |-> result.error])
    ELSE route_optimize_result(
             IF result.success
             THEN << [mode         |-> "driving",
                      distance_km  |-> result.distance_km,
                      duration_min |-> result.duration_min,
                      co2_kg       |-> result.co2_kg] >>
             ELSE << >>)

\* main.py:689-745: the endpoint runs, and calls the route planner
Handler(p, reply) ==
    /\ procs[p].pc = "handler"
    /\ Scheduled(p)
    /\ LET result == calculate_route_emissions("driving", reply)
           call == [raised   |-> result.raised,
                    dict     |-> route_emissions_dict(result),
                    outbound |-> route_emissions_outbound("driving", result)]
           to == ControlFlow("handler", FALSE)
       IN  /\ procs' = [procs EXCEPT ![p] =
                           [@ EXCEPT !.pc = to, !.handled = TRUE,
                                     !.outbound = call.outbound,
                                     !.status = route_optimize_driving(result).status]]
           /\ running' = Holder(p, to)
           /\ last_call' = Invocation("route", reply, call)
    /\ UNCHANGED << api_request, api_response, api_log >>
    /\ UNCHANGED service_vars
    /\ UNCHANGED route_vars

\* main.py:192-202: the response passes metrics_middleware
Respond(p) ==
    /\ procs[p].pc = "respond"
    /\ Scheduled(p)
    /\ LET to == ControlFlow("respond", FALSE)
       IN  /\ procs' = [procs EXCEPT ![p] = [@ EXCEPT !.pc = to]]
           /\ running' = Holder(p, to)
    /\ metrics_storage' = metrics_middleware(metrics_storage,
                                             "/api/transport/route-optimize",
                                             Returns(procs[p].status), 1234)
    /\ samples_log' = Append(samples_log, 1234)
    /\ UNCHANGED << clock, rate_limit_storage, snapshot, last, admitted_log, sent >>
    /\ UNCHANGED route_vars
    /\ UNCHANGED api_vars

\* main.py:128, 165-171, 203-205: the HTTPException passes the two outer
\* middlewares
RaiseRateLimit(p) ==
    /\ procs[p].pc = "raise"
    /\ Scheduled(p)
    /\ LET to == ControlFlow("raise", FALSE)
       IN  /\ procs' = [procs EXCEPT ![p] = [@ EXCEPT !.pc = to,
                                                     !.status = UnhandledExceptionResponse.status]]
           /\ running' = Holder(p, to)
    /\ metrics_storage' = metrics_middleware(metrics_storage,
                                             "/api/transport/route-optimize",
                                             Raises, 1234)
    /\ UNCHANGED << clock, rate_limit_storage, snapshot, last, admitted_log, samples_log, sent >>
    /\ UNCHANGED route_vars
    /\ UNCHANGED api_vars

---------------------------------------------------------------------------
(* Initial state: main.py:28 and main.py:174-181 *)

Init ==
    /\ clock = 0
    /\ rate_limit_storage = [c \in Clients |-> << >>]
    /\ metrics_storage = [requests_total       |-> 0,
                          requests_by_endpoint |-> [p \in Paths |-> 0],
                          requests_by_status   |-> [c \in Statuses |-> 0],
                          errors_total         |-> 0,
                          response_times       |-> << >>]
    /\ snapshot = NoSnapshot
    /\ last = [op |-> "start", client |-> "", path |-> "", time |-> 0,
               duration |-> 0, rejected |-> FALSE, raised |-> FALSE,
               raising |-> 0, status |-> 0, detail |-> ""]
    /\ admitted_log = [c \in Clients |-> << >>]
    /\ samples_log = << >>
    /\ sent = [c \in Clients |-> 0]
    /\ route_pc = "idle"
    /\ route_modes = << >>
    /\ route_index = 1
    /\ routes = << >>
    /\ route_response = NoResponse
    /\ route_calls = << >>
    /\ last_call = NoInvocation
    /\ api_request = NoRequest
    /\ api_response = NoApiResponse
    /\ api_log = << >>
    /\ procs = [p \in ProcIds |-> NewProc]
    /\ running = 0

Total(f) == f[BusyClient] + f[CHOOSE c \in Clients : c # BusyClient]

---------------------------------------------------------------------------
(* Limiter workload: one busy client and one other client ask for /health *)
(* at the start and at the Instants.                                       *)

Budget(client_ip) == IF client_ip = BusyClient THEN MaxRequests ELSE MaxOtherRequests

NextLimiter ==
    \E client_ip \in Clients, current_time \in {clock} \cup Instants :
        /\ sent[client_ip] < Budget(client_ip)
        /\ Request(current_time, client_ip, "/health", Returns(200), 1234)

SpecLimiter == Init /\ [][NextLimiter]_vars

---------------------------------------------------------------------------
(* Mixed workload: a few requests of every path, result and duration.      *)

Next ==
    \E client_ip \in Clients, current_time \in {clock, RateWindowSeconds}, path \in Paths,
       duration_ms \in Durations :
        \E endpoint \in EndpointResults(path) :
            /\ Total(sent) < MaxMixedRequests
            /\ Request(current_time, client_ip, path, endpoint, duration_ms)

Spec == Init /\ [][Next]_vars

---------------------------------------------------------------------------
(* Steady workload: the busy client asks for /metrics once a second.       *)

\* the response time of the n-th request: 1009 distinct even values
SteadyDuration(n) == 1000 + 2 * ((n * 7919) % 1009)

NextSteady ==
    /\ sent[BusyClient] < MaxSteadyRequests
    /\ Request(clock + 1, BusyClient, "/metrics", Returns(200),
               SteadyDuration(sent[BusyClient]))

SpecSteady == Init /\ [][NextSteady]_vars

---------------------------------------------------------------------------
(* Route workload: compare_routes requests of up to MaxModes modes, one    *)
(* of them unsupported, against a planner that fails or answers.           *)

RequestedModes == valid_modes \cup {"flying"}

RECURSIVE ListsUpTo(_, _)
ListsUpTo(S, n) ==
    IF n = 0 THEN {<< >>}
    ELSE LET shorter == ListsUpTo(S, n - 1)
         IN  shorter \cup {Append(l, x) : l \in shorter, x \in S}

ModeLists == ListsUpTo(RequestedModes, MaxModes)

\* Distances in metres; none ends in 5 or lies half way between two grams
\* of CO2, so every rounding has a nearest value.
RouteReplies ==
    {Reply("timeout", 0, "", 0, 0),
     Reply("http", 429, "", 0, 0),
     Reply("api_status", 200, "ZERO_RESULTS", 0, 0),
     Reply("malformed", 200, "OK", 0, 0),
     Reply("ok", 200, "OK", 1234, 600),
     Reply("ok", 200, "OK", 20007, 1810)}

NextRoutes ==
    \/ \E request_modes \in ModeLists : RouteStart(request_modes)
    \/ \E reply \in RouteReplies : RouteStep(reply)
    \/ RouteFinish

SpecRoutes == Init /\ [][NextRoutes]_vars

---------------------------------------------------------------------------
(* Leg workload: one supported mode, or driving and then walking, against  *)
(* a planner that answers every call with a route of a distance of the     *)
(* LegDistances.                                                           *)

\* round() of a value half way between two results depends on the binary
\* floating-point representation of the value; the workload keeps to the
\* distances of which no rounding (of distance_km to 2 decimals, of co2_kg
\* to 3 decimals, of the savings to 2 decimals) is of such a value.
NoHalfWay(distance_m) ==
    /\ distance_m % 10 # 5
    /\ \A mode \in valid_modes :
          /\ (distance_m * emission_factors(mode)) % 1000 # 500
          /\ RoundDiv(distance_m * emission_factors(mode), 1000) % 10 # 5

FarDistances == {1234, 20007, 987654}

LegDistances == {distance_m \in (0..MaxDistance) \cup FarDistances : NoHalfWay(distance_m)}

LegModeLists == {<< mode >> : mode \in valid_modes} \cup {<< "driving", "walking" >>}

NextLegs ==
    \/ \E request_modes \in LegModeLists : RouteStart(request_modes)
    \/ \E distance_m \in LegDistances :
          RouteStep(Reply("ok", 200, "OK", distance_m, 6 * distance_m + 1))
    \/ RouteFinish

SpecLegs == Init /\ [][NextLegs]_vars

---------------------------------------------------------------------------
(* Internal-surface workload: one operation, which is an estimate of       *)
(* carbon, a weather advisory, or a comparison of a few modes, against     *)
(* vendors that fail or answer in every way.                               *)

Activities == valid_activities \cup {"flight"}

Units == valid_units \cup {"miles"}

CarbonReplies ==
    {CarbonReply(kind, 0, NoBody) :
         kind \in {"no_key", "timeout", "connection", "request_error"}}
    \cup {CarbonReply("response", http_status, NoBody) : http_status \in {429, 500, 503}}
    \cup {CarbonReply("response", 200, body) :
            body \in {NoBody,
                      CarbonBody("array", FALSE, 0, FALSE, ""),
                      CarbonBody("object", TRUE, 4321, TRUE, "source"),
                      CarbonBody("object", TRUE, 4321, FALSE, "empty"),
                      CarbonBody("object", TRUE, 4321, TRUE, "string"),
                      CarbonBody("object", FALSE, 0, TRUE, "")}}

Clear == << "C", "l", "e", "a", "r" >>
Rain == << "R", "a", "i", "n" >>
Clouds == << "C", "l", "o", "u", "d", "s" >>
Mist == << "M", "i", "s", "t" >>
SunAndRain == << "S", "U", "N", " ", "a", "n", "d", " ", "r", "a", "i", "n" >>

Temperatures ==
    {Tenths(-5), Tenths(10) - 1, Tenths(10), Tenths(10) + 1, Tenths(18),
     Tenths(25) - 1, Tenths(25), Tenths(25) + 1, Tenths(30)}

NoWeatherBody == WeatherBody("invalid", "", 0, << >>, 0)

WeatherReplies ==
    {WeatherReply(kind, 0, NoWeatherBody) :
         kind \in {"no_key", "timeout", "connection", "request_error"}}
    \cup {WeatherReply("response", http_status, NoWeatherBody) :
            http_status \in {401, 404, 429, 500}}
    \cup {WeatherReply("response", 200, NoWeatherBody)}
    \cup {WeatherReply("response", 200, WeatherBody("object", missing, 0, << >>, 0)) :
            missing \in {"main", "main.temp", "main.humidity", "weather",
                         "weather[0]", "wind", "wind.speed"}}
    \cup {WeatherReply("response", 200, WeatherBody("object", "", temp, main, speed)) :
            temp \in Temperatures,
            main \in {Clear, Rain, Clouds, Mist, SunAndRain},
            speed \in {Tenths(5), Tenths(5) + 1}}

ApiModeLists == ListsUpTo(RequestedModes, MaxApiModes)

Idle == api_request.op = "" /\ route_pc = "idle" /\ last_call.client = ""

NextApi ==
    \/ \E activity_type \in Activities, unit \in Units, reply \in CarbonReplies :
          Idle /\ calculate_carbon(activity_type, 10, unit, reply)
    \/ \E reply \in WeatherReplies :
          Idle /\ weather_recommendations(reply)
    \/ \E request_modes \in ApiModeLists :
          Idle /\ RouteStart(request_modes)
    \/ \E reply \in RouteReplies : RouteStep(reply)
    \/ RouteFinish

SpecApi == Init /\ [][NextApi]_vars

\* The same workload with a vendor that answers every call or lets it run
\* into the timeout of requests.get (api_integrations.py:159-164, 257-262,
\* 381-385), and an endpoint that goes on once its loop is over: the turn of
\* the loop that waits for the planner is taken at last, and so is the end
\* of the comparison.
SpecApiFair ==
    /\ Init
    /\ [][NextApi]_vars
    /\ WF_vars(\E reply \in RouteReplies : RouteStep(reply))
    /\ WF_vars(RouteFinish)

---------------------------------------------------------------------------
(* Repeat workload: a few estimates of carbon and weather advisories, the  *)
(* same ones among them, with plain requests and a route comparison in     *)
(* between.                                                                *)

RepeatCarbonReplies ==
    {CarbonReply("timeout", 0, NoBody),
     CarbonReply("response", 200, CarbonBody("object", TRUE, 4321, TRUE, "source"))}

RepeatWeatherReplies ==
    {WeatherReply("response", 200, WeatherBody("object", "", temp, main, speed)) :
        temp \in {Tenths(10), Tenths(30)},
        main \in {Clear, Mist},
        speed \in {Tenths(5), Tenths(5) + 1}}

NextRepeat ==
    \/ \E activity_type \in {"transport_car", "diet_meat"}, value \in {10, 25},
          reply \in RepeatCarbonReplies :
          /\ Len(api_log) < MaxOperations
          /\ calculate_carbon(activity_type, value, "km", reply)
    \/ \E reply \in RepeatWeatherReplies :
          /\ Len(api_log) < MaxOperations
          /\ weather_recommendations(reply)
    \/ \E now \in {clock, clock + 1} :
          /\ Total(sent) < MaxBetween
          /\ Request(now, BusyClient, "/health", Returns(200), 1234)
    \/ RouteStart(<< "driving" >>)
    \/ \E reply \in {Reply("timeout", 0, "", 0, 0), Reply("ok", 200, "OK", 1234, 600)} :
          RouteStep(reply)
    \/ RouteFinish

SpecRepeat == Init /\ [][NextRepeat]_vars

---------------------------------------------------------------------------
(* Concurrent workload: a caller makes requests one after the other until  *)
(* its window is nearly full, then a few requests, most of them its own,   *)
(* are handled at the same time, at the same instant.                      *)

NextConcurrent ==
    \/ /\ \A p \in ProcIds : procs[p].pc = "arrive"
       /\ Total(sent) < MaxPrefill
       /\ Request(clock, BusyClient, "/health", Returns(200), 1234)
    \/ \E p \in ProcIds, client_ip \in Clients :
          /\ Total(sent) >= MaxPrefill - 1
          /\ p # 2 => client_ip = BusyClient
          /\ Arrive(p, client_ip)
    \/ \E p \in ProcIds : ReadTime(p)
    \/ \E p \in ProcIds : BuildPruned(p)
    \/ \E p \in ProcIds : StorePruned(p)
    \/ \E p \in ProcIds : CheckLimit(p)
    \/ \E p \in ProcIds : RecordTimestamp(p)
    \/ \E p \in ProcIds, reply \in {Reply("timeout", 0, "", 0, 0),
                                   Reply("ok", 200, "OK", 1234, 600)} :
          Handler(p, reply)
    \/ \E p \in ProcIds : Respond(p)
    \/ \E p \in ProcIds : RaiseRateLimit(p)

SpecConcurrent == Init /\ [][NextConcurrent]_vars

---------------------------------------------------------------------------
(* Long workload: the busy client makes a request a second, of the paths   *)
(* in turn; /predict and the route comparison answer some of them with     *)
(* 500, and now and then the handling of a request raises.                 *)

LongPath(n) ==
    CASE n % 4 = 0 -> "/health"
      [] n % 4 = 1 -> "/predict"
      [] n % 4 = 2 -> "/metrics"
      [] n % 4 = 3 -> "/api/transport/route-optimize"

LongResult(n) ==
    IF n % 3 = 0 /\ Returns(500) \in EndpointResults(LongPath(n))
    THEN Returns(500)
    ELSE Returns(200)

NextLong ==
    \/ /\ sent[BusyClient] < MaxSteadyRequests
       /\ Request(clock + 1, BusyClient, LongPath(sent[BusyClient]),
                  LongResult(sent[BusyClient]), SteadyDuration(sent[BusyClient]))
    \/ /\ sent[BusyClient] < MaxSteadyRequests
       /\ sent[BusyClient] % FaultPeriod = 1
       /\ metrics_storage.errors_total < MaxFaults
       /\ Request(clock + 1, BusyClient, "/predict", Raises,
                  SteadyDuration(sent[BusyClient]))

SpecLong == Init /\ [][NextLong]_vars

---------------------------------------------------------------------------
(* Claims about the rate limiter *)

\* the admitted timestamps of a log inside the trailing window ending at t
WindowCount(log, t) ==
    Len(SelectSeq(log, LAMBDA ts : ts <= t /\ ts > t - RateWindowSeconds))

\* The number of admitted requests in a trailing window changes only at the
\* instant of an admission and one window later: these instants, and the
\* second before each window's end, stand for every instant.
ObservedInstants ==
    LET arrivals == {0} \cup Instants
    IN  arrivals \cup {t + RateWindowSeconds - 1 : t \in arrivals}
                 \cup {t + RateWindowSeconds : t \in arrivals}

\* C1: for every client and every instant t, at most 60 of the client's
\* admitted requests have a timestamp in the trailing 60-second window
\* ending at t.
C1_AtMostSixtyPerWindow ==
    \A c \in Clients, t \in ObservedInstants :
        WindowCount(admitted_log[c], t) <= 60

\* C1 witness: a request is rejected at second 60 while the window ending
\* there is full of requests admitted at seconds 59 and 60, an older
\* admitted request having slid out of it.
C1_Witness ==
    /\ last.op = "request" /\ last.rejected /\ last.time = 60
    /\ WindowCount(admitted_log[last.client], 60) = 60
    /\ Len(admitted_log[last.client]) > 60
    /\ \E i \in 1..Len(admitted_log[last.client]) : admitted_log[last.client][i] = 59

\* C2: when 60 requests of a client have been admitted, a further request of
\* that client less than 60 s after the first of the latest 60 is rejected,
\* and a request 60 s or more after it is admitted, whatever was rejected in
\* between.
C2_FullWindowRejectsUntilItSlides ==
    [][\A c \in Clients :
          (sent'[c] # sent[c] /\ Len(admitted_log[c]) >= 60) =>
              LET first == admitted_log[c][Len(admitted_log[c]) - 59]
              IN  /\ (last'.time - first < 60) => last'.rejected
                  /\ (last'.time - first >= 60) => ~last'.rejected]_vars

\* C2 witness: the 62nd request of a client is admitted at second 60, after
\* 60 admitted requests and a rejected one.
C2_Witness ==
    /\ last.op = "request" /\ ~last.rejected /\ last.time = 60
    /\ sent[last.client] = 62
    /\ Len(admitted_log[last.client]) = 61
    /\ admitted_log[last.client][1] = 0

\* C3: a rejected request leaves in the client's window exactly the former
\* timestamps less than 60 s old, in their order, does not record its own
\* timestamp, and changes no other client's window.
C3_RejectionOnlyPrunes ==
    [][\A c \in Clients :
          (sent'[c] # sent[c] /\ last'.rejected) =>
              /\ rate_limit_storage'[c] =
                    SelectSeq(rate_limit_storage[c],
                              LAMBDA ts : ~(last'.time - ts >= 60))
              /\ Len(rate_limit_storage'[c]) <= Len(rate_limit_storage[c])
              /\ \A o \in Clients \ {c} :
                    rate_limit_storage'[o] = rate_limit_storage[o]]_vars

\* C3 witness: a request is rejected while another client has a timestamp
\* in its own window.
C3_Witness ==
    /\ last.op = "request" /\ last.rejected
    /\ Len(rate_limit_storage[last.client]) = 60
    /\ \E o \in Clients \ {last.client} : rate_limit_storage[o] # << >>

\* C4: a request rejected by the rate limiter is answered with status 429, a
\* status outside the server-error class of a provider or transport failure.
C4_RejectionAnsweredAs429 ==
    (last.op = "request" /\ last.rejected) =>
        /\ last.status = 429
        /\ last.status \div 100 # 5

---------------------------------------------------------------------------
(* Claims about the metrics collector *)

\* C5: every request, whatever its outcome, adds one to requests_total, one
\* to the counter of its path, one to the counter of its status code, and one
\* response-time sample.
C5_EveryRequestIsCounted ==
    [][(sent' # sent) =>
          /\ metrics_storage'.requests_total = metrics_storage.requests_total + 1
          /\ metrics_storage'.requests_by_endpoint[last'.path] =
                metrics_storage.requests_by_endpoint[last'.path] + 1
          /\ metrics_storage'.requests_by_status[last'.status] =
                metrics_storage.requests_by_status[last'.status] + 1
          /\ Len(samples_log') = Len(samples_log) + 1]_vars

\* the last n elements of s
LastN(s, n) == [i \in 1..n |-> s[Len(s) - n + i]]

\* C6: the sample list never holds more than 1000 entries, and it holds the
\* latest samples in the order they were recorded: all of them up to 1000,
\* the 1000 most recent beyond.
C6_RingKeepsLatestThousand ==
    /\ Len(metrics_storage.response_times) <= 1000
    /\ Len(samples_log) <= 1000 => metrics_storage.response_times = samples_log
    /\ Len(samples_log) > 1000 =>
          metrics_storage.response_times = LastN(samples_log, 1000)

\* C6 witness: more than 1000 samples were recorded and the list differs
\* from the first 1000 of them.
C6_Witness ==
    /\ Len(samples_log) > 1000
    /\ Len(metrics_storage.response_times) = 1000
    /\ metrics_storage.response_times[1] # samples_log[1]

\* how many samples are below v, and how many are at most v
Below(s, v) == Cardinality({i \in 1..Len(s) : s[i] < v})

AtMost(s, v) == Cardinality({i \in 1..Len(s) : s[i] <= v})

\* v is the element at 0-based index k of the ascending order of s
IsOrderStatistic(s, k, v) ==
    /\ \E i \in 1..Len(s) : s[i] = v
    /\ Below(s, v) <= k
    /\ k < AtMost(s, v)

\* a GET /metrics request reached the endpoint in this step
SnapshotTaken == sent' # sent /\ last'.path = "/metrics" /\ ~last'.rejected

\* C7 as stated: with n samples the reported 95th percentile is the element
\* at 0-based index floor(0.95 n) of the sorted samples when n > 20, and 0
\* when n <= 20.
C7_P95IsTheSortedElement ==
    [][SnapshotTaken =>
          LET s == metrics_storage.response_times
              n == Len(s)
          IN  IF n > 20
              THEN IsOrderStatistic(s, (95 * n) \div 100, snapshot'.p95)
              ELSE snapshot'.p95 = 0]_vars

\* the hundredth of a millisecond nearest to v (v in thousandths, not half
\* way between two hundredths)
NearestHundredth(v) == CHOOSE r \in {v - (v % 10), v - (v % 10) + 10} :
                          2 * (IF r > v THEN r - v ELSE v - r) < 10

\* C7 amended: with n samples the reported 95th percentile is the element at
\* 0-based index floor(0.95 n) of the sorted samples, rounded to two
\* decimals, when n > 20 (index 23 for n = 25, a valid index for every n up
\* to 1000), and 0 when n <= 20.
C7_P95IsTheRoundedSortedElement ==
    [][SnapshotTaken =>
          LET s == metrics_storage.response_times
              n == Len(s)
              k == (95 * n) \div 100
          IN  /\ n <= 1000
              /\ n = 25 => k = 23
              /\ IF n > 20
                 THEN /\ k < n
                      /\ \E i \in 1..n :
                            /\ NearestHundredth(s[i]) = snapshot'.p95
                            /\ IsOrderStatistic(s, k, s[i])
                 ELSE snapshot'.p95 = 0]_vars

\* C7 witness: a snapshot taken over exactly 25 samples reports a 95th
\* percentile that is not 0 and is none of the samples.
C7_Witness ==
    /\ snapshot.samples = 25
    /\ snapshot.p95 > 0
    /\ \A i \in 1..Len(samples_log) : samples_log[i] # snapshot.p95

\* C8: in every step requests_total, errors_total, every per-endpoint
\* counter and every per-status counter stay or grow.
C8_CountersNeverDecrease ==
    [][/\ metrics_storage'.requests_total >= metrics_storage.requests_total
       /\ metrics_storage'.errors_total >= metrics_storage.errors_total
       /\ \A p \in Paths : metrics_storage'.requests_by_endpoint[p]
                              >= metrics_storage.requests_by_endpoint[p]
       /\ \A c \in Statuses : metrics_storage'.requests_by_status[c]
                                 >= metrics_storage.requests_by_status[c]]_vars

\* C8 witness: requests of two paths and a raised fault have been counted.
C8_Witness ==
    /\ metrics_storage.errors_total >= 1
    /\ metrics_storage.requests_by_endpoint["/health"] >= 1
    /\ metrics_storage.requests_by_endpoint["/predict"] >= 1
    /\ metrics_storage.requests_by_status[500] >= 1
    /\ metrics_storage.requests_total >= 2

---------------------------------------------------------------------------
(* Claims about the route comparator *)

Supported == {"driving", "transit", "walking", "bicycling"}

AllSupported == \A i \in 1..Len(route_modes) : route_modes[i] \in Supported

ModesOf(s) == [i \in 1..Len(s) |-> s[i].mode]

\* the modes whose planner call succeeded, in call order
SucceededModes == ModesOf(SelectSeq(route_calls, LAMBDA c : c.success))

\* every requested mode was attempted once, in order; the legs are those of
\* the modes that succeeded; one success makes the comparison succeed
BestEffort ==
    /\ ModesOf(route_calls) = route_modes
    /\ ModesOf(routes) = SucceededModes
    /\ SucceededModes # << >> =>
          /\ route_response.status = 200
          /\ ModesOf(route_response.routes) = SucceededModes

\* C9 as stated: for any list of requested modes and any failures, every
\* requested mode is attempted, a failed mode is only dropped from the legs,
\* and the comparison succeeds when one mode succeeds.
C9_FailureNeverAborts == route_pc = "done" => BestEffort

\* C9 amended: that holds for any list of supported modes and any pattern of
\* provider or transport failures; a request that names an unsupported mode
\* ends as a client error (400) at the first such mode, the modes after it
\* are not attempted and no leg is returned.
C9_ProviderFailureNeverAborts ==
    route_pc = "done" =>
        IF AllSupported
        THEN BestEffort
        ELSE LET bad == CHOOSE i \in 1..Len(route_modes) :
                           /\ route_modes[i] \notin Supported
                           /\ \A j \in 1..(i - 1) : route_modes[j] \in Supported
             IN  /\ ModesOf(route_calls) = SubSeq(route_modes, 1, bad)
                 /\ route_response.status = 400
                 /\ route_response.routes = << >>

\* C9 witness: of three supported modes the first and the last fail, the
\* second succeeds, and the comparison succeeds with one leg.
C9_Witness ==
    /\ route_pc = "done" /\ AllSupported /\ Len(route_modes) = 3
    /\ ~route_calls[1].success /\ route_calls[2].success /\ ~route_calls[3].success
    /\ route_response.status = 200
    /\ Len(route_response.routes) = 1

\* C10: when every requested mode fails at the planner, or no mode is
\* requested, the caller receives a server error whose message is "Could not
\* calculate any routes", and no legs, recommendation or savings.
C10_AllFailedSaysNoRoutes ==
    (/\ route_pc = "done"
     /\ AllSupported
     /\ \A i \in 1..Len(route_calls) : ~route_calls[i].success) =>
        /\ route_response.status = 500
        /\ route_response.detail = "Could not calculate any routes"
        /\ route_response.routes = << >>
        /\ route_response.recommended = ""
        /\ route_response.savings_co2_kg = 0

\* the least and the greatest co2_kg of a non-empty list of legs
MinCo2(legs) ==
    CHOOSE m \in {legs[i].co2_kg : i \in 1..Len(legs)} :
        \A i \in 1..Len(legs) : m <= legs[i].co2_kg

MaxCo2(legs) ==
    CHOOSE m \in {legs[i].co2_kg : i \in 1..Len(legs)} :
        \A i \in 1..Len(legs) : m >= legs[i].co2_kg

Compared == route_pc = "done" /\ route_response.status = 200

\* C11: in every comparison returned (at least one mode succeeded), the
\* recommended mode is the mode of the first leg, in the input order of
\* modes, whose co2_kg is the least among the successful legs.
C11_RecommendedIsFirstMinimum ==
    Compared =>
        /\ SucceededModes # << >>
        /\ \E i \in 1..Len(routes) :
              /\ route_response.recommended = route_modes[
                     CHOOSE k \in 1..Len(route_calls) :
                        /\ route_calls[k].success
                        /\ Cardinality({j \in 1..k : route_calls[j].success}) = i]
              /\ route_response.recommended = routes[i].mode
              /\ routes[i].co2_kg = MinCo2(routes)
              /\ \A j \in 1..(i - 1) : routes[j].co2_kg > MinCo2(routes)

\* C11 witness: two legs of different modes share the least co2_kg, a third
\* leg emits more, and the mode of the first of the two is recommended.
C11_Witness ==
    /\ Compared /\ Len(routes) = 3
    /\ routes[1].co2_kg > routes[2].co2_kg
    /\ routes[2].co2_kg = routes[3].co2_kg
    /\ routes[2].mode # routes[3].mode
    /\ route_response.recommended = routes[2].mode

\* C13: in every comparison returned (at least one mode succeeded),
\* savings_co2_kg is the greatest co2_kg of the successful legs minus the
\* least, rounded to two decimals (here: to ten grams); it is never negative,
\* and it is 0 when exactly one leg succeeded.
C13_SavingsIsMaxMinusMin ==
    Compared =>
        /\ SucceededModes # << >>
        /\ route_response.savings_co2_kg =
              10 * RoundDiv(MaxCo2(routes) - MinCo2(routes), 10)
        /\ route_response.savings_co2_kg >= 0
        /\ Len(routes) = 1 => route_response.savings_co2_kg = 0

\* C13 witness: the leg of the greatest co2_kg is neither the first nor the
\* recommended one, and the savings are positive.
C13_Witness ==
    /\ Compared /\ Len(routes) = 3
    /\ routes[2].co2_kg > routes[1].co2_kg
    /\ routes[1].co2_kg > routes[3].co2_kg
    /\ route_response.savings_co2_kg > 0

\* compare_routes with modes ["driving", "walking"], both planner calls
\* having succeeded
DrivingThenWalking ==
    /\ route_pc = "done"
    /\ route_modes = << "driving", "walking" >>
    /\ Len(route_calls) = 2
    /\ route_calls[1].success /\ route_calls[2].success

\* C12 as stated: for modes ["driving", "walking"] where both planner calls
\* succeed, for every driving distance, the recommended mode is "walking"
\* and savings_co2_kg is round(driving co2_kg - 0, 2).
C12_WalkingAlwaysRecommended ==
    DrivingThenWalking =>
        /\ route_response.status = 200
        /\ route_response.recommended = "walking"
        /\ route_response.savings_co2_kg = 10 * RoundDiv(routes[1].co2_kg - 0, 10)

\* C12 amended: the recommended mode is "walking" for every driving distance
\* whose co2_kg is above 0; when the driving co2_kg is 0.0 (a distance
\* under 3 metres) the two legs tie and the recommended mode is "driving",
\* the first in the input order; in both cases savings_co2_kg is
\* round(driving co2_kg - 0, 2).
C12_WalkingRecommendedUnlessTie ==
    DrivingThenWalking =>
        /\ route_response.status = 200
        /\ routes[2].co2_kg = 0
        /\ route_response.recommended =
              IF routes[1].co2_kg > 0 THEN "walking" ELSE "driving"
        /\ routes[1].co2_kg = 0 <=> route_calls[1].distance_m < 3
        /\ route_response.savings_co2_kg = 10 * RoundDiv(routes[1].co2_kg - 0, 10)

\* C12 witness: a driving leg that emits, walking recommended, the savings
\* those of the driving leg.
C12_Witness ==
    /\ DrivingThenWalking
    /\ route_calls[1].distance_m = 20007
    /\ route_response.recommended = "walking"
    /\ route_response.savings_co2_kg = 3420

\* x is n / d rounded to the nearest integer (n >= 0, d > 0)
IsNearest(x, n, d) ==
    /\ 2 * (d * x - n) <= d
    /\ 2 * (n - d * x) <= d

\* a planner call of a single-mode request has succeeded
OneLeg ==
    /\ route_pc = "done"
    /\ Len(route_modes) = 1
    /\ Len(route_calls) = 1
    /\ route_calls[1].success

\* C14 as stated: for each of the four modes and every leg distance, the leg
\* satisfies co2_kg == round(distance_km * factor[mode], 3) for its own
\* distance_km field (hundredths of a kilometre times grams per kilometre
\* are hundredths of a gram).
C14_Co2FromOwnDistanceField ==
    OneLeg =>
        IsNearest(routes[1].co2_kg,
                  routes[1].distance_km * emission_factors(routes[1].mode), 100)

\* C14 amended: co2_kg is round(d * factor[mode], 3) of the unrounded
\* distance d = metres / 1000 kilometres (metres times grams per kilometre
\* are thousandths of a gram); the leg's distance_km field is
\* round(d, 2), and co2_kg of walking and bicycling is 0.
C14_Co2FromUnroundedDistance ==
    OneLeg =>
        /\ IsNearest(routes[1].co2_kg,
                     route_calls[1].distance_m * emission_factors(routes[1].mode), 1000)
        /\ IsNearest(routes[1].distance_km, route_calls[1].distance_m, 10)
        /\ routes[1].mode \in {"walking", "bicycling"} => routes[1].co2_kg = 0
        /\ routes[1].mode = "driving" =>
               IsNearest(routes[1].co2_kg, route_calls[1].distance_m * 171, 1000)
        /\ routes[1].mode = "transit" =>
               IsNearest(routes[1].co2_kg, route_calls[1].distance_m * 89, 1000)

\* C14 witness: a driving leg of 1234 m has distance_km 1.23 and co2_kg
\* 0.211, where round(1.23 * 0.171, 3) is 0.21.
C14_Witness ==
    /\ OneLeg
    /\ routes[1].mode = "driving"
    /\ route_calls[1].distance_m = 1234
    /\ routes[1].distance_km = 123
    /\ routes[1].co2_kg = 211

---------------------------------------------------------------------------
(* Claims about the provider clients and the internal surface *)

\* the one unit an activity kind expects
ExpectedUnit(activity_type) ==
    CASE activity_type \in {"transport_car", "transport_bus"} -> "km"
      [] activity_type = "diet_meat" -> "kg"
      [] activity_type = "energy_electricity" -> "kWh"
      [] OTHER -> ""

SupportedActivities == {"transport_car", "transport_bus", "diet_meat", "energy_electricity"}

SupportedUnits == {"km", "kg", "kWh"}

\* C15: an estimate of carbon with a unit other than the one its activity
\* kind expects (km for car and bus transport, kg for meat diet, kWh for grid
\* electricity), or with an unsupported kind or unit, fails as an invalid
\* argument and makes no outbound call.
C15_MismatchedUnitIsInvalidArgument ==
    (/\ api_request.op = "carbon"
     /\ \/ api_request.activity_type \notin SupportedActivities
        \/ api_request.unit \notin SupportedUnits
        \/ api_request.unit # ExpectedUnit(api_request.activity_type)) =>
        /\ last_call.raised = "ValueError"
        /\ last_call.outbound = << >>
        /\ api_response.status # 200

TransportFailures == {"no_key", "timeout", "connection", "request_error"}

\* the vendor or the transport failed the latest client invocation
ProviderFailed ==
    \/ last_call.kind \in TransportFailures
    \/ last_call.kind \in {"response", "http"} /\ last_call.http_status # 200
    \/ last_call.kind \in {"api_status", "malformed"}

\* C16: in estimate carbon and compare_routes a local validation failure
\* (unsupported activity, unit or mode) is reported as a client error (400)
\* and a provider or transport failure as a server error (500); in weather
\* every provider or transport failure is reported as a server error; no
\* failure is reported as a success.
C16_ErrorClassMapping ==
    /\ api_request.op = "carbon" =>
          IF \/ api_request.activity_type \notin SupportedActivities
             \/ api_request.unit \notin SupportedUnits
          THEN api_response.status = 400
          ELSE /\ ProviderFailed => api_response.status = 500
               /\ api_response.status \in {200, 500}
               /\ api_response.status = 200 =>
                     last_call.raised = "" /\ last_call.dict.success
    /\ api_request.op = "weather" =>
          /\ ProviderFailed => api_response.status = 500
          /\ api_response.status \in {200, 500}
          /\ api_response.status = 200 =>
                last_call.raised = "" /\ last_call.dict.success
    /\ route_pc = "done" =>
          IF ~AllSupported
          THEN route_response.status = 400
          ELSE /\ SucceededModes = << >> => route_response.status = 500
               /\ route_response.status \in {200, 500}
               /\ route_response.status = 200 => SucceededModes # << >>

\* C16 witness: an estimate of a supported activity in an unsupported unit
\* is answered with 400, whatever the vendor would have said.
C16_Witness ==
    /\ api_request.op = "carbon"
    /\ api_request.activity_type = "transport_car"
    /\ api_request.unit = "miles"
    /\ last_call.kind = "timeout"
    /\ api_response.status = 400

\* C17: for each of the three provider clients a vendor response with HTTP
\* status 429 is a rate-limit failure, distinct from the generic failure
\* "API request failed with status <status>" of the other non-200 statuses.
C17_Status429IsRateLimited ==
    (/\ last_call.client \in {"carbon", "weather", "route"}
     /\ last_call.raised = ""
     /\ last_call.kind \in {"response", "http"}
     /\ last_call.http_status = 429) =>
        /\ ~last_call.dict.success
        /\ last_call.dict.error # "API request failed with status 429"

PayloadFields(client) ==
    CASE client = "carbon" -> {"co2_kg", "confidence", "data_source"}
      [] client = "weather" ->
            {"temperature", "conditions", "description", "humidity", "wind_speed"}
      [] client = "route" -> {"distance_km", "duration_min", "co2_kg"}

\* the arguments of the latest client invocation were locally valid
LocallyValid ==
    CASE last_call.client = "carbon" ->
            /\ api_request.activity_type \in SupportedActivities
            /\ api_request.unit \in SupportedUnits
      [] last_call.client = "weather" -> TRUE
      [] last_call.client = "route" ->
            route_calls[Len(route_calls)].mode \in Supported
      [] OTHER -> FALSE

\* C18: a provider client called with locally valid arguments returns,
\* whatever the vendor or the transport does, either a success that carries
\* the payload fields and no error, or a failure that carries an error
\* message and no payload; nothing leaves the client as an exception.
C18_OutcomeWellFormed ==
    LocallyValid =>
        /\ last_call.raised = ""
        /\ IF last_call.dict.success
           THEN DOMAIN last_call.dict = {"success"} \cup PayloadFields(last_call.client)
           ELSE /\ DOMAIN last_call.dict = {"success", "error"}
                /\ last_call.dict.error # ""

\* C18 witness: the carbon vendor answers 200 with a JSON array, and the
\* client returns a failure.
C18_Witness ==
    /\ last_call.client = "carbon"
    /\ LocallyValid
    /\ last_call.kind = "response" /\ last_call.http_status = 200
    /\ ~last_call.dict.success
    /\ last_call.dict.error = "Unexpected error: <exception>"

VendorOf(client) ==
    CASE client = "carbon" -> "api.climatiq.io"
      [] client = "weather" -> "api.openweathermap.org"
      [] client = "route" -> "maps.googleapis.com"
      [] OTHER -> ""

\* C19: an invocation of a provider client issues at most one outbound call,
\* to its own vendor, whatever the result; a compare_routes request issues
\* at most one planner call per entry of the requested modes, in their
\* order, a failed mode being never attempted again.
C19_NoRetry ==
    /\ Len(last_call.outbound) <= 1
    /\ \A i \in 1..Len(last_call.outbound) :
          last_call.outbound[i].vendor = VendorOf(last_call.client)
    /\ Len(route_calls) <= Len(route_modes)
    /\ \A k \in 1..Len(route_calls) : route_calls[k].mode = route_modes[k]
    /\ route_pc = "done" /\ AllSupported => Len(route_calls) = Len(route_modes)

\* C19 witness: the first of two modes fails at the planner after one call,
\* the second is attempted next, and the comparison ends after two calls.
C19_Witness ==
    /\ route_pc = "done" /\ Len(route_modes) = 2
    /\ Len(route_calls) = 2
    /\ route_calls[1].called /\ ~route_calls[1].success
    /\ route_calls[2].called /\ route_calls[2].success
    /\ Len(last_call.outbound) = 1

Cooling ==
    {"Consider using a fan instead of AC to save energy",
     "Open windows in the evening for natural cooling",
     "Use window shades during peak sun hours"}

Heating ==
    {"Layer clothing before turning up the heat",
     "Use draft excluders to keep heat in",
     "Drink warm beverages to feel warmer naturally"}

Efficiency ==
    {"Perfect temperature for natural ventilation",
     "Consider reducing heating/cooling usage"}

\* the number of the advisories of a list that belong to a bucket
CountOf(list, bucket) == Len(SelectSeq(list, LAMBDA a : a \in bucket))

Advised == api_request.op = "weather" /\ api_response.status = 200

\* C20: for every reading exactly one temperature bucket fires: above 25
\* degrees the three cooling suggestions, below 10 the three heating
\* suggestions, and from 10 to 25 inclusive the two efficiency suggestions.
C20_OneTemperatureBucket ==
    Advised =>
        LET temp == api_response.body.weather.temperature
            list == api_response.body.recommendations
            cool == CountOf(list, Cooling)
            heat == CountOf(list, Heating)
            effi == CountOf(list, Efficiency)
        IN  /\ temp > 250 => cool = 3 /\ heat = 0 /\ effi = 0
            /\ temp < 100 => cool = 0 /\ heat = 3 /\ effi = 0
            /\ (temp >= 100 /\ temp <= 250) => cool = 0 /\ heat = 0 /\ effi = 2
            /\ {list[i] : i \in 1..(cool + heat + effi)}
                  \in {Cooling, Heating, Efficiency}

\* C20 witness: a reading of exactly 25 degrees gets the two efficiency
\* suggestions.
C20_Witness ==
    /\ Advised
    /\ api_response.body.weather.temperature = 250
    /\ CountOf(api_response.body.recommendations, Efficiency) = 2
    /\ CountOf(api_response.body.recommendations, Cooling) = 0

SunnySuggestions ==
    << "Great day for line-drying laundry instead of using dryer",
       "Open curtains to warm your home naturally",
       "Excellent conditions for solar charging devices" >>

RainSuggestions ==
    << "Collect rainwater for plants and garden use",
       "Good day to work from home and reduce transport emissions" >>

CloudSuggestions ==
    << "Mild conditions - perfect for outdoor activities without AC" >>

WindSuggestions == << "Windy day - perfect for air-drying laundry quickly" >>

SetOf(list) == {list[i] : i \in 1..Len(list)}

\* C21: the condition rule matches substrings whatever their case: "clear"
\* or "sun" adds three suggestions, "rain" adds two, "cloud" adds one, and a
\* condition text that satisfies more than one of the tests receives the
\* suggestions of every matching bucket.
C21_EveryMatchingBucketFires ==
    Advised =>
        LET text == Lower(api_response.body.weather.conditions)
            list == api_response.body.recommendations
        IN  /\ CountOf(list, SetOf(SunnySuggestions)) =
                  IF Contains(text, << "c", "l", "e", "a", "r" >>)
                     \/ Contains(text, << "s", "u", "n" >>)
                  THEN 3 ELSE 0
            /\ CountOf(list, SetOf(RainSuggestions)) =
                  IF Contains(text, << "r", "a", "i", "n" >>) THEN 2 ELSE 0
            /\ CountOf(list, SetOf(CloudSuggestions)) =
                  IF Contains(text, << "c", "l", "o", "u", "d" >>) THEN 1 ELSE 0

\* the vendor answered 200 with a body in which an expected field is absent
MalformedBody ==
    /\ last_call.raised = ""
    /\ last_call.http_status = 200
    /\ CASE last_call.client = "carbon" ->
               /\ last_call.kind = "response"
               /\ last_call.reply.body.shape = "object"
               /\ ~last_call.reply.body.has_co2e
         [] last_call.client = "weather" ->
               /\ last_call.kind = "response"
               /\ last_call.reply.body.shape = "object"
               /\ last_call.reply.body.missing \in
                     {"main.temp", "main.humidity", "weather[0]", "wind.speed"}
         [] last_call.client = "route" -> last_call.kind = "malformed"
         [] OTHER -> FALSE

\* C23: for each provider client a vendor response with HTTP 200 in which an
\* expected field is absent (carbon: co2e; weather: main.temp,
\* main.humidity, weather[0], wind.speed; routing: status, routes[0].legs[0],
\* distance.value, duration.value) yields a malformed-response failure and
\* never a success.
C23_MalformedResponseFails ==
    MalformedBody =>
        /\ ~last_call.dict.success
        /\ last_call.dict.error = "Invalid API response format"

WeatherEntries ==
    {i \in 1..Len(api_log) :
        api_log[i].request.op = "weather" /\ api_log[i].response.status = 200}

\* C22: for every reading the advisory list is the temperature suggestions,
\* then the condition suggestions, then the wind suggestion, which is
\* present exactly when the wind speed is above 5; the same reading always
\* yields the same list; a reading of 30 degrees and "Clear" yields at least
\* 6 items that start with the three suggestions of the bucket above 25.
C22_AdvisoryOrder ==
    /\ \A i \in WeatherEntries :
          LET reading == api_log[i].response.body.weather
              list == api_log[i].response.body.recommendations
          IN  /\ \E t \in {<< "Consider using a fan instead of AC to save energy",
                              "Open windows in the evening for natural cooling",
                              "Use window shades during peak sun hours" >>,
                           << "Layer clothing before turning up the heat",
                              "Use draft excluders to keep heat in",
                              "Drink warm beverages to feel warmer naturally" >>,
                           << "Perfect temperature for natural ventilation",
                              "Consider reducing heating/cooling usage" >>},
                    c \in {SunnySuggestions, RainSuggestions, CloudSuggestions, << >>},
                    w \in {WindSuggestions, << >>} :
                    /\ list = t \o c \o w
                    /\ w = WindSuggestions <=> reading.wind_speed > 50
              /\ (reading.temperature = 300 /\ reading.conditions = << "C", "l", "e", "a", "r" >>) =>
                    /\ Len(list) >= 6
                    /\ SetOf(SubSeq(list, 1, 3)) = Cooling
    /\ \A i, j \in WeatherEntries :
          api_log[i].response.body.weather = api_log[j].response.body.weather =>
              api_log[i].response.body.recommendations
                  = api_log[j].response.body.recommendations

\* C22 witness: the reading of 30 degrees, "Clear" and wind above 5 is
\* advised twice, with a plain request before the second time, and gets the
\* same seven suggestions.
C22_Witness ==
    /\ Len(api_log) = 2 /\ WeatherEntries = {1, 2}
    /\ last.op = "request"
    /\ api_log[1].response.body.weather.temperature = 300
    /\ api_log[1].response.body.weather.conditions = << "C", "l", "e", "a", "r" >>
    /\ api_log[1].response.body.weather.wind_speed = 51
    /\ api_log[2].response.body.weather = api_log[1].response.body.weather
    /\ Len(api_log[2].response.body.recommendations) = 7

CarbonEntries == {i \in 1..Len(api_log) : api_log[i].request.op = "carbon"}

\* the fields of an answer that an estimate of carbon is made of
Estimate(response) ==
    IF response.status = 200
    THEN [status |-> 200, co2_kg |-> response.body.co2_kg,
          confidence |-> response.body.confidence,
          data_source |-> response.body.data_source]
    ELSE [status |-> response.status, detail |-> response.detail]

Done == {p \in ProcIds : procs[p].pc = "done"}

\* the timestamps of window that are less than a window old
Young(window) == Prune(window, clock)

\* C25: when several requests of one caller are handled at the same time, no
\* update of the caller's window is lost (the window holds every admitted
\* timestamp), the window never holds more than 60 timestamps less than 60
\* seconds old, and a request that has passed the check records its
\* timestamp before any other request takes a step.
C25_ConcurrentAdmission ==
    /\ [](\A c \in Clients :
             /\ Len(Young(rate_limit_storage[c])) <= RateLimitMax
             /\ Young(rate_limit_storage[c]) = Young(admitted_log[c]))
    /\ [][\A p \in ProcIds :
             procs[p].pc \in {"prune", "store", "check", "record"} =>
                 /\ \A q \in ProcIds \ {p} : procs'[q] = procs[q]
                 /\ procs'[p].pc # procs[p].pc]_vars

\* C25 witness: three requests of the caller that had 58 timestamps in its
\* window have been handled at the same time; two were admitted, one was
\* rejected, and the window holds 60 timestamps.
C25_Witness ==
    /\ Done = ProcIds
    /\ \A p \in ProcIds : procs[p].client = BusyClient
    /\ Cardinality({p \in ProcIds : procs[p].recorded}) = 2
    /\ Cardinality({p \in ProcIds : procs[p].rejected}) = 1
    /\ Len(rate_limit_storage[BusyClient]) = RateLimitMax

\* C30: a request that the rate limiter rejected never reaches its endpoint
\* and makes no outbound call; an endpoint runs, and an outbound call is
\* made, only for a request whose timestamp is recorded in the window of its
\* caller.
C30_AdmissionPrecedesHandling ==
    \A p \in ProcIds :
        /\ procs[p].rejected =>
              /\ ~procs[p].handled
              /\ procs[p].outbound = << >>
              /\ procs[p].pc \in {"raise", "done"}
        /\ (procs[p].handled \/ procs[p].pc = "handler" \/ procs[p].outbound # << >>) =>
              /\ procs[p].recorded
              /\ ~procs[p].rejected
              /\ \E i \in 1..Len(rate_limit_storage[procs[p].client]) :
                    rate_limit_storage[procs[p].client][i] = procs[p].current_time

\* C30 witness: of three requests handled at the same time, one was rejected
\* and made no call, and one was recorded, reached the endpoint and made
\* its call to the route planner.
C30_Witness ==
    /\ \E p \in Done : procs[p].rejected /\ procs[p].outbound = << >>
    /\ \E p \in Done : procs[p].handled /\ procs[p].recorded /\ Len(procs[p].outbound) = 1
    /\ metrics_storage.errors_total = 1

\* the planner calls that succeeded, in call order
Succeeded == SelectSeq(route_calls, LAMBDA c : c.success)

\* C29: in a comparison returned, every requested mode was attempted in the
\* input order and the legs are exactly the modes whose planner call
\* succeeded, one leg for each successful call (a mode requested twice gives
\* two legs), in that order; the recommended mode is the mode of a returned
\* leg of the least co2_kg, and the savings are counted from a returned leg
\* of the greatest co2_kg.
C29_LegsAreSuccessfulAttempts ==
    Compared =>
        LET legs == route_response.routes
        IN  /\ ModesOf(route_calls) = route_modes
            /\ Len(legs) = Len(Succeeded)
            /\ \A i \in 1..Len(legs) :
                  /\ legs[i].mode = Succeeded[i].mode
                  /\ IsNearest(legs[i].distance_km, Succeeded[i].distance_m, 10)
            /\ \E i, j \in 1..Len(legs) :
                  /\ route_response.recommended = legs[i].mode
                  /\ \A k \in 1..Len(legs) : legs[i].co2_kg <= legs[k].co2_kg
                  /\ \A k \in 1..Len(legs) : legs[j].co2_kg >= legs[k].co2_kg
                  /\ route_response.savings_co2_kg =
                        10 * RoundDiv(legs[j].co2_kg - legs[i].co2_kg, 10)

\* C29 witness: driving is requested twice with a mode that fails in
\* between; the comparison has two driving legs, of different distances.
C29_Witness ==
    /\ Compared
    /\ Len(route_modes) = 3 /\ route_modes[1] = route_modes[3]
    /\ ~route_calls[2].success
    /\ Len(route_response.routes) = 2
    /\ route_response.routes[1].mode = route_response.routes[2].mode
    /\ route_response.routes[1].distance_km # route_response.routes[2].distance_km

\* C27: a request of a client, admitted or rejected, leaves the window of
\* every other client as it was, and whether it is admitted depends only on
\* the client's own admitted requests and the time of the request: it is
\* rejected exactly when 60 of them are less than 60 seconds old.
C27_CallerIsolation ==
    [][\A c \in Clients :
          sent'[c] # sent[c] =>
              /\ \A o \in Clients \ {c} :
                    /\ rate_limit_storage'[o] = rate_limit_storage[o]
                    /\ admitted_log'[o] = admitted_log[o]
              /\ last'.rejected <=>
                    Len(Prune(admitted_log[c], last'.time)) >= RateLimitMax]_vars

\* C27 witness: a client is admitted while the window of the other client
\* is full and that client has just been rejected.
C27_Witness ==
    /\ last.op = "request" /\ ~last.rejected
    /\ last.client # BusyClient
    /\ Len(rate_limit_storage[last.client]) = 1
    /\ Len(rate_limit_storage[BusyClient]) = RateLimitMax
    /\ sent[BusyClient] > RateLimitMax
    /\ Len(admitted_log[BusyClient]) = RateLimitMax

\* the sum of the counters of the table f
RECURSIVE SumOfCounters(_, _)
SumOfCounters(f, keys) ==
    IF keys = {} THEN 0
    ELSE LET k == CHOOSE x \in keys : TRUE
         IN  f[k] + SumOfCounters(f, keys \ {k})

\* C28: in every state requests_total is the sum of the per-endpoint
\* counters and the sum of the per-status counters, and the number of stored
\* samples is the lesser of requests_total and 1000; a request whose
\* handling raises adds one to errors_total and changes nothing else of the
\* metrics.
C28_MetricsConsistency ==
    /\ [](LET m == metrics_storage
          IN  /\ m.requests_total =
                    SumOfCounters(m.requests_by_endpoint, DOMAIN m.requests_by_endpoint)
              /\ m.requests_total =
                    SumOfCounters(m.requests_by_status, DOMAIN m.requests_by_status)
              /\ Len(m.response_times) =
                    IF m.requests_total < MaxResponseTimes
                    THEN m.requests_total ELSE MaxResponseTimes)
    /\ [][(sent' # sent /\ last'.raised) =>
             /\ metrics_storage'.errors_total = metrics_storage.errors_total + 1
             /\ metrics_storage'.requests_total = metrics_storage.requests_total
             /\ metrics_storage'.requests_by_endpoint = metrics_storage.requests_by_endpoint
             /\ metrics_storage'.requests_by_status = metrics_storage.requests_by_status
             /\ metrics_storage'.response_times = metrics_storage.response_times]_vars

\* C28 witness: more than 1000 requests of every path, answered with 200
\* and with 500, have been counted, two more have raised, and 1000 samples
\* are stored.
C28_Witness ==
    /\ metrics_storage.requests_total > MaxResponseTimes
    /\ metrics_storage.errors_total = 2
    /\ sent[BusyClient] = metrics_storage.requests_total + 2
    /\ \A p \in Paths : metrics_storage.requests_by_endpoint[p] > 0
    /\ metrics_storage.requests_by_status[200] > 0
    /\ metrics_storage.requests_by_status[500] > 0
    /\ Len(metrics_storage.response_times) = MaxResponseTimes

\* the planner call that waits for its answer: the n-th of the comparison
Waiting(n) ==
    route_pc = "loop" /\ route_index <= Len(route_modes) /\ Len(route_calls) = n

\* C26: if every outbound call is answered or times out, an invocation of a
\* provider client returns a success or a failure, and a comparison of
\* routes over a finite list of modes, once started, completes with a
\* comparison or a failure.
C26_Termination ==
    /\ (route_pc = "loop") ~>
          (route_pc = "done" /\ route_response.status \in {200, 400, 500})
    /\ \A n \in 0..(MaxApiModes - 1) :
          Waiting(n) ~> (Len(route_calls) = n + 1)
    /\ [](last_call.client # "" =>
             \/ last_call.raised # ""
             \/ last_call.dict.success
             \/ last_call.dict.error # "")

\* C26 witness: a comparison of two modes is over; the first call of the
\* planner ran into its timeout and the second one was answered.
C26_Witness ==
    /\ route_pc = "done"
    /\ Len(route_calls) = 2
    /\ ~route_calls[1].success /\ route_calls[2].success
    /\ route_response.status = 200
    /\ last_call.client = "route" /\ last_call.dict.success

===========================================================================
